---- MODULE Spec2Model ----
(***************************************************************************)
(* A model of the js2akm compiler (akmcc): parser projections, capability  *)
(* inference, IR lowering, bytecode generation and the AKM v2 binary       *)
(* writer with its two rolling checksums.                                  *)
(*                                                                         *)
(* Numbers.  A JavaScript integer-valued number n is the record            *)
(* [hi |-> n \div 65536, lo |-> n % 65536] (floor division), so that both  *)
(* the unsigned 32-bit range (hi in 0..65535) and the signed 32-bit range  *)
(* (hi in -32768..32767) are represented without leaving the integers the  *)
(* model checker can compute with.  Strings are tuples of UTF-16 code      *)
(* units; buffers are tuples of bytes.                                     *)
(***************************************************************************)
EXTENDS Integers, Sequences, FiniteSets, TLC

VARIABLES
    src,          \* the source module handed to the compiler (AST projection)
    opts,         \* compiler options (AKMCompiler constructor / CLI flags)
    pc,           \* position of the caller: "start", "parsed", "done", "exited"
    parseRes,     \* what AKMParser.parse returned
    compiled,     \* outcome of AKMCompiler.compile
    cli,          \* outcome of the command-line run: exit code, files written
    ckData,       \* calculateChecksum: the buffer being summed
    ckPos,        \* calculateChecksum: loop index i
    ckAcc,        \* calculateChecksum: the accumulator `checksum`
    instance,     \* one AKMCompiler object: the fields its parser and code generator keep
    history,      \* what each parse + compile on that object returned, in order
    akmFile,      \* the file handed to akmcc --info
    info,         \* outcome of akmcc --info: exit code, error, the fields reported
    optIr,        \* the IR handed to the optimizer passes
    passes,       \* the passes run on it so far, each with the instructions it was given
    gen           \* AKMCodeGen.generate under way: its buffers and the instruction it is at

vars ==
    <<src, opts, pc, parseRes, compiled, cli, ckData, ckPos, ckAcc, instance, history, akmFile, info,
      optIr, passes, gen>>

----------------------------------------------------------------------------
(* Bounds of the model *)

\* longest run of equal bytes fed to the checksum loop
MaxRun == 34
\* longest free-form byte sequence fed to the checksum loop
MaxCkLen == 3
\* most statements in a generated function body
MaxStmts == 2
\* most compilations run on one AKMCompiler object
MaxCompilations == 3
\* most optimizer passes run on one instruction list
MaxPasses == 3
\* longest instruction list over the whole alphabet handed to the passes
MaxInstrs == 3
\* longest list of NEG / NOT handed to the passes
MaxNest == 6

----------------------------------------------------------------------------
(* Sequence helpers *)

RECURSIVE Rep(_, _)
Rep(x, n) == IF n <= 0 THEN <<>> ELSE <<x>> \o Rep(x, n - 1)

RECURSIVE Flatten(_)
Flatten(ss) == IF ss = <<>> THEN <<>> ELSE Head(ss) \o Flatten(Tail(ss))

RECURSIVE SeqsUpTo(_, _)
SeqsUpTo(S, n) ==
    IF n <= 0 THEN {<<>>}
    ELSE LET shorter == SeqsUpTo(S, n - 1)
         IN  shorter \cup {Append(s, x) : s \in shorter, x \in S}

Min(a, b) == IF a < b THEN a ELSE b

\* first index at which P-value x occurs in s, 0 when absent (Array.indexOf + 1)
IndexOf(s, x) ==
    IF \E i \in 1..Len(s) : s[i] = x
    THEN CHOOSE i \in 1..Len(s) : s[i] = x /\ \A j \in 1..(i - 1) : s[j] # x
    ELSE 0

----------------------------------------------------------------------------
(* JavaScript numbers and the 32-bit operators the code applies to them *)

Num(n) == [hi |-> n \div 65536, lo |-> n % 65536]
Zero == Num(0)

\* ToUint32 / ToInt32 of an integer-valued number
ToUint32(x) == [hi |-> x.hi % 65536, lo |-> x.lo]
ToInt32(x) == [hi |-> ((x.hi + 32768) % 65536) - 32768, lo |-> x.lo]

RECURSIVE BitOrN(_, _)
BitOrN(a, b) ==
    IF a = 0 THEN b
    ELSE IF b = 0 THEN a
    ELSE (IF a % 2 = 1 \/ b % 2 = 1 THEN 1 ELSE 0) + 2 * BitOrN(a \div 2, b \div 2)

RECURSIVE BitAndN(_, _)
BitAndN(a, b) ==
    IF a = 0 \/ b = 0 THEN 0
    ELSE (IF a % 2 = 1 /\ b % 2 = 1 THEN 1 ELSE 0) + 2 * BitAndN(a \div 2, b \div 2)

\* a | b : both operands through ToInt32, result a signed 32-bit number
JsOr(a, b) ==
    ToInt32([hi |-> BitOrN(a.hi % 65536, b.hi % 65536), lo |-> BitOrN(a.lo, b.lo)])
\* a & b
JsAnd(a, b) ==
    ToInt32([hi |-> BitAndN(a.hi % 65536, b.hi % 65536), lo |-> BitAndN(a.lo, b.lo)])
\* a << 1
JsShl1(a) ==
    ToInt32([hi |-> ((a.hi % 65536) * 2 + a.lo \div 32768) % 65536,
             lo |-> (a.lo * 2) % 65536])
\* a >>> 31
JsUshr31(a) == [hi |-> 0, lo |-> (a.hi % 65536) \div 32768]
\* a >>> 0
JsUshr0(a) == ToUint32(a)
\* a + b for a byte b
JsAddByte(a, b) ==
    LET l == a.lo + b IN [hi |-> a.hi + l \div 65536, lo |-> l % 65536]

IsU32(x) == x.hi \in 0..65535 /\ x.lo \in 0..65535
\* the four little-endian bytes of the low 32 bits: v & 0xFF, (v >> 8) & 0xFF, ...
LE32(x) == <<x.lo % 256, x.lo \div 256, x.hi % 256, (x.hi \div 256) % 256>>
LE16(n) == <<n % 256, (n \div 256) % 256>>
\* Buffer.readUInt32LE
ReadU32(buf, off) ==
    [hi |-> buf[off + 3] + 256 * buf[off + 4], lo |-> buf[off + 1] + 256 * buf[off + 2]]

----------------------------------------------------------------------------
(* AKMBinaryWriter.calculateChecksum *)

\* a step of the loop that forgets the bit rotated out of position 31
ChecksumStepNoCarry(checksum, byte) == JsUshr0(JsShl1(JsAddByte(checksum, byte)))

\* one iteration: checksum += data[i]; checksum = ((checksum << 1) | (checksum >>> 31)) >>> 0
ChecksumStep(checksum, byte) ==
    LET sum == JsAddByte(checksum, byte)
    IN  JsUshr0(JsOr(JsShl1(sum), JsUshr31(sum)))

\* the for loop over data[from .. to - 1], split in halves so that the
\* accumulator of the first half is a value before the second half starts
RECURSIVE ChecksumRange(_, _, _, _)
ChecksumRange(checksum, data, from, to) ==
    IF to <= from THEN checksum
    ELSE IF to = from + 1 THEN ChecksumStep(checksum, data[from])
    ELSE LET mid == (from + to) \div 2
         IN  CHOOSE r \in {ChecksumRange(c, data, mid, to) :
                              c \in {ChecksumRange(checksum, data, from, mid)}} : TRUE

calculateChecksum(data) == ChecksumRange(Zero, data, 1, Len(data) + 1)

----------------------------------------------------------------------------
(* constants.js: capability flags, API table, opcodes, format constants *)

CAPABILITIES ==
    [ NONE |-> [hi |-> 0, lo |-> 0],
      COMMAND |-> [hi |-> 0, lo |-> 1],
      DRIVER |-> [hi |-> 0, lo |-> 2],
      FILESYSTEM |-> [hi |-> 0, lo |-> 4],
      NETWORK |-> [hi |-> 0, lo |-> 8],
      ENVVAR |-> [hi |-> 0, lo |-> 16],
      PROCESS |-> [hi |-> 0, lo |-> 32],
      MEMORY |-> [hi |-> 0, lo |-> 64],
      IRQ |-> [hi |-> 0, lo |-> 128],
      IO_PORT |-> [hi |-> 0, lo |-> 256],
      PCI |-> [hi |-> 0, lo |-> 512],
      TIMER |-> [hi |-> 0, lo |-> 1024],
      LOG |-> [hi |-> 0, lo |-> 2048],
      SYSINFO |-> [hi |-> 0, lo |-> 4096],
      USER |-> [hi |-> 0, lo |-> 8192],
      SECURITY |-> [hi |-> 0, lo |-> 16384],
      PANIC |-> [hi |-> 0, lo |-> 32768],
      DEBUG |-> [hi |-> 1, lo |-> 0],
      IPC |-> [hi |-> 2, lo |-> 0],
      CRYPTO |-> [hi |-> 4, lo |-> 0],
      ACPI |-> [hi |-> 8, lo |-> 0],
      ALL |-> [hi |-> 65535, lo |-> 65535] ]

API_FUNCTIONS ==
    << [name |-> <<108, 111, 103>>, capability |-> CAPABILITIES.LOG, argCount |-> 2],  \* 0: log
       [name |-> <<105, 110, 102, 111>>, capability |-> CAPABILITIES.LOG, argCount |-> 1],  \* 1: info
       [name |-> <<119, 97, 114, 110>>, capability |-> CAPABILITIES.LOG, argCount |-> 1],  \* 2: warn
       [name |-> <<101, 114, 114, 111, 114>>, capability |-> CAPABILITIES.LOG, argCount |-> 1],  \* 3: error
       [name |-> <<100, 101, 98, 117, 103>>, capability |-> CAPABILITIES.DEBUG, argCount |-> 1],  \* 4: debug
       [name |-> <<104, 101, 120, 100, 117, 109, 112>>, capability |-> CAPABILITIES.DEBUG, argCount |-> 2],  \* 5: hexdump
       [name |-> <<109, 97, 108, 108, 111, 99>>, capability |-> CAPABILITIES.MEMORY, argCount |-> 1],  \* 6: malloc
       [name |-> <<99, 97, 108, 108, 111, 99>>, capability |-> CAPABILITIES.MEMORY, argCount |-> 2],  \* 7: calloc
       [name |-> <<114, 101, 97, 108, 108, 111, 99>>, capability |-> CAPABILITIES.MEMORY, argCount |-> 2],  \* 8: realloc
       [name |-> <<102, 114, 101, 101>>, capability |-> CAPABILITIES.MEMORY, argCount |-> 1],  \* 9: free
       [name |-> <<97, 108, 108, 111, 99, 80, 97, 103, 101>>, capability |-> CAPABILITIES.MEMORY, argCount |-> 0],  \* 10: allocPage
       [name |-> <<102, 114, 101, 101, 80, 97, 103, 101>>, capability |-> CAPABILITIES.MEMORY, argCount |-> 1],  \* 11: freePage
       [name |-> <<114, 101, 103, 105, 115, 116, 101, 114, 67, 111, 109, 109, 97, 110, 100>>, capability |-> CAPABILITIES.COMMAND, argCount |-> 1],  \* 12: registerCommand
       [name |-> <<117, 110, 114, 101, 103, 105, 115, 116, 101, 114, 67, 111, 109, 109, 97, 110, 100>>, capability |-> CAPABILITIES.COMMAND, argCount |-> 1],  \* 13: unregisterCommand
       [name |-> <<103, 101, 116, 101, 110, 118>>, capability |-> CAPABILITIES.ENVVAR, argCount |-> 1],  \* 14: getenv
       [name |-> <<115, 101, 116, 101, 110, 118>>, capability |-> CAPABILITIES.ENVVAR, argCount |-> 2],  \* 15: setenv
       [name |-> <<117, 110, 115, 101, 116, 101, 110, 118>>, capability |-> CAPABILITIES.ENVVAR, argCount |-> 1],  \* 16: unsetenv
       [name |-> <<114, 101, 103, 105, 115, 116, 101, 114, 68, 114, 105, 118, 101, 114>>, capability |-> CAPABILITIES.DRIVER, argCount |-> 1],  \* 17: registerDriver
       [name |-> <<117, 110, 114, 101, 103, 105, 115, 116, 101, 114, 68, 114, 105, 118, 101, 114>>, capability |-> CAPABILITIES.DRIVER, argCount |-> 1],  \* 18: unregisterDriver
       [name |-> <<114, 101, 103, 105, 115, 116, 101, 114, 70, 83>>, capability |-> CAPABILITIES.FILESYSTEM, argCount |-> 1],  \* 19: registerFS
       [name |-> <<117, 110, 114, 101, 103, 105, 115, 116, 101, 114, 70, 83>>, capability |-> CAPABILITIES.FILESYSTEM, argCount |-> 1],  \* 20: unregisterFS
       [name |-> <<111, 112, 101, 110>>, capability |-> CAPABILITIES.FILESYSTEM, argCount |-> 2],  \* 21: open
       [name |-> <<99, 108, 111, 115, 101>>, capability |-> CAPABILITIES.FILESYSTEM, argCount |-> 1],  \* 22: close
       [name |-> <<114, 101, 97, 100>>, capability |-> CAPABILITIES.FILESYSTEM, argCount |-> 3],  \* 23: read
       [name |-> <<119, 114, 105, 116, 101>>, capability |-> CAPABILITIES.FILESYSTEM, argCount |-> 3],  \* 24: write
       [name |-> <<115, 101, 101, 107>>, capability |-> CAPABILITIES.FILESYSTEM, argCount |-> 3],  \* 25: seek
       [name |-> <<114, 101, 103, 105, 115, 116, 101, 114, 78, 101, 116, 105, 102>>, capability |-> CAPABILITIES.NETWORK, argCount |-> 2],  \* 26: registerNetif
       [name |-> <<117, 110, 114, 101, 103, 105, 115, 116, 101, 114, 78, 101, 116, 105, 102>>, capability |-> CAPABILITIES.NETWORK, argCount |-> 1],  \* 27: unregisterNetif
       [name |-> <<110, 101, 116, 105, 102, 82, 101, 99, 101, 105, 118, 101>>, capability |-> CAPABILITIES.NETWORK, argCount |-> 3],  \* 28: netifReceive
       [name |-> <<114, 101, 103, 105, 115, 116, 101, 114, 73, 82, 81>>, capability |-> CAPABILITIES.IRQ, argCount |-> 3],  \* 29: registerIRQ
       [name |-> <<117, 110, 114, 101, 103, 105, 115, 116, 101, 114, 73, 82, 81>>, capability |-> CAPABILITIES.IRQ, argCount |-> 1],  \* 30: unregisterIRQ
       [name |-> <<101, 110, 97, 98, 108, 101, 73, 82, 81>>, capability |-> CAPABILITIES.IRQ, argCount |-> 1],  \* 31: enableIRQ
       [name |-> <<100, 105, 115, 97, 98, 108, 101, 73, 82, 81>>, capability |-> CAPABILITIES.IRQ, argCount |-> 1],  \* 32: disableIRQ
       [name |-> <<111, 117, 116, 98>>, capability |-> CAPABILITIES.IO_PORT, argCount |-> 2],  \* 33: outb
       [name |-> <<111, 117, 116, 119>>, capability |-> CAPABILITIES.IO_PORT, argCount |-> 2],  \* 34: outw
       [name |-> <<111, 117, 116, 108>>, capability |-> CAPABILITIES.IO_PORT, argCount |-> 2],  \* 35: outl
       [name |-> <<105, 110, 98>>, capability |-> CAPABILITIES.IO_PORT, argCount |-> 1],  \* 36: inb
       [name |-> <<105, 110, 119>>, capability |-> CAPABILITIES.IO_PORT, argCount |-> 1],  \* 37: inw
       [name |-> <<105, 110, 108>>, capability |-> CAPABILITIES.IO_PORT, argCount |-> 1],  \* 38: inl
       [name |-> <<105, 111, 87, 97, 105, 116>>, capability |-> CAPABILITIES.IO_PORT, argCount |-> 0],  \* 39: ioWait
       [name |-> <<112, 99, 105, 70, 105, 110, 100, 68, 101, 118, 105, 99, 101>>, capability |-> CAPABILITIES.PCI, argCount |-> 2],  \* 40: pciFindDevice
       [name |-> <<112, 99, 105, 70, 105, 110, 100, 67, 108, 97, 115, 115>>, capability |-> CAPABILITIES.PCI, argCount |-> 2],  \* 41: pciFindClass
       [name |-> <<112, 99, 105, 82, 101, 97, 100, 67, 111, 110, 102, 105, 103>>, capability |-> CAPABILITIES.PCI, argCount |-> 2],  \* 42: pciReadConfig
       [name |-> <<112, 99, 105, 87, 114, 105, 116, 101, 67, 111, 110, 102, 105, 103>>, capability |-> CAPABILITIES.PCI, argCount |-> 3],  \* 43: pciWriteConfig
       [name |-> <<112, 99, 105, 69, 110, 97, 98, 108, 101, 66, 117, 115, 109, 97, 115, 116, 101, 114>>, capability |-> CAPABILITIES.PCI, argCount |-> 1],  \* 44: pciEnableBusmaster
       [name |-> <<99, 114, 101, 97, 116, 101, 84, 105, 109, 101, 114>>, capability |-> CAPABILITIES.TIMER, argCount |-> 3],  \* 45: createTimer
       [name |-> <<115, 116, 97, 114, 116, 84, 105, 109, 101, 114>>, capability |-> CAPABILITIES.TIMER, argCount |-> 1],  \* 46: startTimer
       [name |-> <<115, 116, 111, 112, 84, 105, 109, 101, 114>>, capability |-> CAPABILITIES.TIMER, argCount |-> 1],  \* 47: stopTimer
       [name |-> <<100, 101, 115, 116, 114, 111, 121, 84, 105, 109, 101, 114>>, capability |-> CAPABILITIES.TIMER, argCount |-> 1],  \* 48: destroyTimer
       [name |-> <<103, 101, 116, 84, 105, 99, 107, 115>>, capability |-> CAPABILITIES.TIMER, argCount |-> 0],  \* 49: getTicks
       [name |-> <<115, 108, 101, 101, 112>>, capability |-> CAPABILITIES.TIMER, argCount |-> 1],  \* 50: sleep
       [name |-> <<115, 112, 97, 119, 110>>, capability |-> CAPABILITIES.PROCESS, argCount |-> 3],  \* 51: spawn
       [name |-> <<107, 105, 108, 108>>, capability |-> CAPABILITIES.PROCESS, argCount |-> 2],  \* 52: kill
       [name |-> <<103, 101, 116, 112, 105, 100>>, capability |-> CAPABILITIES.PROCESS, argCount |-> 0],  \* 53: getpid
       [name |-> <<121, 105, 101, 108, 100>>, capability |-> CAPABILITIES.PROCESS, argCount |-> 0],  \* 54: yield
       [name |-> <<103, 101, 116, 83, 121, 115, 105, 110, 102, 111>>, capability |-> CAPABILITIES.SYSINFO, argCount |-> 0],  \* 55: getSysinfo
       [name |-> <<103, 101, 116, 75, 101, 114, 110, 101, 108, 86, 101, 114, 115, 105, 111, 110>>, capability |-> CAPABILITIES.SYSINFO, argCount |-> 0],  \* 56: getKernelVersion
       [name |-> <<105, 112, 99, 83, 101, 110, 100>>, capability |-> CAPABILITIES.IPC, argCount |-> 3],  \* 57: ipcSend
       [name |-> <<105, 112, 99, 82, 101, 99, 101, 105, 118, 101>>, capability |-> CAPABILITIES.IPC, argCount |-> 2],  \* 58: ipcReceive
       [name |-> <<105, 112, 99, 67, 114, 101, 97, 116, 101, 67, 104, 97, 110, 110, 101, 108>>, capability |-> CAPABILITIES.IPC, argCount |-> 1],  \* 59: ipcCreateChannel
       [name |-> <<105, 112, 99, 68, 101, 115, 116, 114, 111, 121, 67, 104, 97, 110, 110, 101, 108>>, capability |-> CAPABILITIES.IPC, argCount |-> 1],  \* 60: ipcDestroyChannel
       [name |-> <<115, 104, 97, 50, 53, 54>>, capability |-> CAPABILITIES.CRYPTO, argCount |-> 2],  \* 61: sha256
       [name |-> <<114, 97, 110, 100, 111, 109, 66, 121, 116, 101, 115>>, capability |-> CAPABILITIES.CRYPTO, argCount |-> 2],  \* 62: randomBytes
       [name |-> <<103, 101, 116, 67, 117, 114, 114, 101, 110, 116, 85, 73, 68>>, capability |-> CAPABILITIES.USER, argCount |-> 0],  \* 63: getCurrentUID
       [name |-> <<103, 101, 116, 85, 115, 101, 114, 110, 97, 109, 101>>, capability |-> CAPABILITIES.USER, argCount |-> 1],  \* 64: getUsername
       [name |-> <<99, 104, 101, 99, 107, 80, 101, 114, 109, 105, 115, 115, 105, 111, 110>>, capability |-> CAPABILITIES.USER, argCount |-> 2] >>  \* 65: checkPermission

OPCODES ==
    [ NOP |-> 0, PUSH |-> 1, PUSH_STR |-> 2, PUSH_ARG |-> 3, POP |-> 4, DUP |-> 5, SWAP |-> 6,
      LOAD_LOCAL |-> 16, STORE_LOCAL |-> 17, LOAD_GLOBAL |-> 18, STORE_GLOBAL |-> 19,
      ADD |-> 32, SUB |-> 33, MUL |-> 34, DIV |-> 35, MOD |-> 36, NEG |-> 37, INC |-> 38, DEC |-> 39,
      AND |-> 48, OR |-> 49, XOR |-> 50, NOT |-> 51, SHL |-> 52, SHR |-> 53,
      EQ |-> 64, NE |-> 65, LT |-> 66, LE |-> 67, GT |-> 68, GE |-> 69,
      JMP |-> 80, JZ |-> 81, JNZ |-> 82, CALL |-> 83, CALL_API |-> 84, RET |-> 85,
      LOAD8 |-> 96, LOAD16 |-> 97, LOAD32 |-> 98, STORE8 |-> 99, STORE16 |-> 100, STORE32 |-> 101,
      SYSCALL |-> 112, BREAKPOINT |-> 113, HALT |-> 127 ]

AKM_FORMAT == [ MAGIC_V2 |-> [hi |-> 12877, lo |-> 19265], SYM_FUNC |-> 1, BIND_GLOBAL |-> 1 ]

\* strings of the program text, as UTF-16 code units
STR_init == <<105, 110, 105, 116>>
STR_exit == <<101, 120, 105, 116>>
STR_unknown == <<117, 110, 107, 110, 111, 119, 110>>
STR_Module == <<77, 111, 100, 117, 108, 101>>
STR_unnamed == <<117, 110, 110, 97, 109, 101, 100>>
STR_1_0_0 == <<49, 46, 48, 46, 48>>
STR_MIT == <<77, 73, 84>>
STR_registerCommand == <<114, 101, 103, 105, 115, 116, 101, 114, 67, 111, 109, 109, 97, 110, 100>>
STR_module == <<109, 111, 100, 117, 108, 101>>
STR_command == <<99, 111, 109, 109, 97, 110, 100>>
STR_toString == <<116, 111, 83, 116, 114, 105, 110, 103>>
STR_constructor == <<99, 111, 110, 115, 116, 114, 117, 99, 116, 111, 114>>
STR_valueOf == <<118, 97, 108, 117, 101, 79, 102>>
STR_hasOwnProperty == <<104, 97, 115, 79, 119, 110, 80, 114, 111, 112, 101, 114, 116, 121>>

\* property names every object literal inherits from Object.prototype
ObjectPrototypeKeys == {STR_toString, STR_constructor, STR_valueOf, STR_hasOwnProperty}

ApiNames == {API_FUNCTIONS[i].name : i \in 1..Len(API_FUNCTIONS)}
ApiEntry(method) == API_FUNCTIONS[CHOOSE i \in 1..Len(API_FUNCTIONS) : API_FUNCTIONS[i].name = method]

----------------------------------------------------------------------------
(* JavaScript values as the restricted constant evaluator produces them *)

Null == [t |-> "null"]
Undefined == [t |-> "undefined"]
NaN == [t |-> "nan"]
NumV(x) == [t |-> "number", n |-> x]
StrV(s) == [t |-> "string", s |-> s]
RefV(name) == [t |-> "ref", ref |-> name]
ArrV(items) == [t |-> "array", items |-> items]

TypeOf(v) ==
    CASE v.t \in {"number", "nan"} -> "number"
      [] v.t = "string" -> "string"
      [] v.t = "undefined" -> "undefined"
      [] OTHER -> "object"

Truthy(v) ==
    CASE v.t = "number" -> v.n # Zero
      [] v.t = "string" -> v.s # <<>>
      [] v.t \in {"ref", "array", "object", "entry", "inherited"} -> TRUE
      [] OTHER -> FALSE

\* a || b
OrElse(a, b) == IF Truthy(a) THEN a ELSE b

\* ToNumber followed by ToInt32, for the operands of | in this program
ToInt32V(v) == IF v.t = "number" THEN ToInt32(v.n) ELSE Zero

\* -x on an integer-valued number
JsNeg(x) == IF x.lo = 0 THEN [hi |-> 0 - x.hi, lo |-> 0] ELSE [hi |-> 0 - x.hi - 1, lo |-> 65536 - x.lo]

Negate(v) ==
    CASE v.t = "number" -> NumV(JsNeg(v.n))
      [] v.t = "null" -> NumV(Zero)
      [] v.t = "string" /\ v.s = <<>> -> NumV(Zero)
      [] OTHER -> NaN

----------------------------------------------------------------------------
(* AST nodes of the source text (the shapes the parser looks at) *)

Lit(v) == [type |-> "Literal", value |-> v]
Ident(name) == [type |-> "Identifier", name |-> name]
Unary(op, arg) == [type |-> "UnaryExpression", operator |-> op, argument |-> arg]
Binary(op, l, r) == [type |-> "BinaryExpression", operator |-> op, left |-> l, right |-> r]
\* AKM.CAPS.<cap>
CapsMember(cap) == [type |-> "MemberExpression", property |-> cap]
Template(quasis) == [type |-> "TemplateLiteral", quasis |-> quasis]
ArrayExpr(elements) == [type |-> "ArrayExpression", elements |-> elements]
ObjectExpr(props) == [type |-> "ObjectExpression", properties |-> props]
Prop(key, node) == [key |-> key, value |-> node]

\* statements of a function body
ApiCall(method, args) == [kind |-> "api", method |-> method, args |-> args]
FuncCall(func, argc) == [kind |-> "call", func |-> func, argc |-> argc]
ReturnArg(arg) == [kind |-> "return", hasArg |-> TRUE, argument |-> arg]
ReturnBare == [kind |-> "return", hasArg |-> FALSE]
VarInit(name, init) == [kind |-> "var", name |-> name, hasInit |-> TRUE, init |-> init]
VarBare(name) == [kind |-> "var", name |-> name, hasInit |-> FALSE]

----------------------------------------------------------------------------
(* AKMParser *)

RECURSIVE evaluateLiteral(_)
evaluateLiteral(node) ==
    CASE node.type = "Literal" -> node.value
      [] node.type = "TemplateLiteral" -> StrV(Flatten(node.quasis))
      [] node.type = "Identifier" -> RefV(node.name)
      [] node.type = "UnaryExpression" ->
            IF node.operator = "-" THEN Negate(evaluateLiteral(node.argument)) ELSE Null
      [] node.type = "BinaryExpression" -> Null
      [] OTHER -> Null

ObjKeys == {"name", "version", "author", "description", "license", "capabilities",
            "dependencies", "securityLevel", "syntax", "category"}

EmptyObject == [k \in ObjKeys |-> Undefined]

parseObjectExpression(node) ==
    IF node.type # "ObjectExpression" THEN EmptyObject
    ELSE [k \in ObjKeys |->
            IF \E i \in 1..Len(node.properties) : node.properties[i].key = k
            THEN LET last == CHOOSE i \in 1..Len(node.properties) :
                                /\ node.properties[i].key = k
                                /\ \A j \in (i + 1)..Len(node.properties) : node.properties[j].key # k
                     pv == node.properties[last].value
                 IN  IF pv.type = "ObjectExpression" THEN [t |-> "object"]
                     ELSE IF pv.type = "ArrayExpression"
                          THEN ArrV([e \in 1..Len(pv.elements) |-> evaluateLiteral(pv.elements[e])])
                          ELSE evaluateLiteral(pv)
            ELSE Undefined]

\* the last AKM.module(<object literal>) call of the text wins; {} when there is none
extractModuleConfig(ast) ==
    LET calls == {i \in 1..Len(ast.moduleCalls) :
                    Len(ast.moduleCalls[i]) > 0 /\ ast.moduleCalls[i][1].type = "ObjectExpression"}
    IN  IF calls = {} THEN EmptyObject
        ELSE parseObjectExpression(ast.moduleCalls[CHOOSE i \in calls : \A j \in calls : j <= i][1])

\* functions[name] = {...}: keys in order of first assignment, contents of the last one
extractFunctions(ast) ==
    LET decls == ast.functions
        firsts == {i \in 1..Len(decls) : \A j \in 1..(i - 1) : decls[j].name # decls[i].name}
        lastOf(i) == CHOOSE k \in 1..Len(decls) :
                        /\ decls[k].name = decls[i].name
                        /\ \A j \in (k + 1)..Len(decls) : decls[j].name # decls[i].name
        RECURSIVE collect(_)
        collect(i) == IF i > Len(decls) THEN <<>>
                      ELSE (IF i \in firsts THEN <<decls[lastOf(i)]>> ELSE <<>>) \o collect(i + 1)
    IN  collect(1)

HasFunction(functions, name) == \E i \in 1..Len(functions) : functions[i].name = name

extractCommands(ast) ==
    LET RECURSIVE collect(_)
        collect(i) ==
            IF i > Len(ast.commandCalls) THEN <<>>
            ELSE LET args == ast.commandCalls[i]
                 IN  (IF Len(args) >= 2
                      THEN LET cmdConfig == parseObjectExpression(args[1])
                               handler == args[2]
                           IN  <<[name |-> OrElse(cmdConfig.name, StrV(STR_unknown)),
                                  syntax |-> OrElse(cmdConfig.syntax, cmdConfig.name),
                                  description |-> OrElse(cmdConfig.description, StrV(<<>>)),
                                  category |-> OrElse(cmdConfig.category, StrV(STR_Module)),
                                  handler |-> IF handler.type = "Identifier" /\ handler.name # <<>>
                                              THEN StrV(handler.name) ELSE Null]>>
                      ELSE <<>>) \o collect(i + 1)
    IN  collect(1)

\* the AKM.<method>(...) call statements of a body, in order
ApiStatements(body) ==
    LET RECURSIVE collect(_)
        collect(i) == IF i > Len(body) THEN <<>>
                      ELSE (IF body[i].kind = "api" THEN <<body[i]>> ELSE <<>>) \o collect(i + 1)
    IN  collect(1)

\* every AKM.* call of the text except module / command
extractAPICalls(ast) ==
    LET all == Flatten([i \in 1..Len(ast.functions) |-> ApiStatements(ast.functions[i].body)])
               \o ApiStatements(ast.topCalls)
        RECURSIVE keep(_)
        keep(i) == IF i > Len(all) THEN <<>>
                   ELSE (IF all[i].method \in {STR_module, STR_command} THEN <<>>
                         ELSE <<[method |-> all[i].method, args |-> all[i].args]>>) \o keep(i + 1)
    IN  keep(1)

\* API_FUNCTIONS[method]: an own entry, a member inherited from Object.prototype, or undefined
LookupApi(method) ==
    IF method \in ApiNames THEN [t |-> "entry", capability |-> ApiEntry(method).capability]
    ELSE IF method \in ObjectPrototypeKeys THEN [t |-> "inherited"]
    ELSE Undefined

\* the capability loop without the unconditional LOG bit
RECURSIVE CapsOfCalls(_, _, _)
CapsOfCalls(apiCalls, i, caps) ==
    IF i > Len(apiCalls) THEN caps
    ELSE LET apiInfo == LookupApi(apiCalls[i].method)
         IN  CapsOfCalls(apiCalls, i + 1,
                         IF apiInfo.t = "entry" THEN JsOr(caps, apiInfo.capability)
                         ELSE IF apiInfo.t = "inherited" THEN JsOr(caps, Zero)
                         ELSE caps)

WarningsOfCalls(apiCalls, file) ==
    LET RECURSIVE collect(_)
        collect(i) ==
            IF i > Len(apiCalls) THEN <<>>
            ELSE (IF Truthy(LookupApi(apiCalls[i].method)) THEN <<>>
                  ELSE <<[file |-> file, kind |-> "Unknown API method", method |-> apiCalls[i].method]>>)
                 \o collect(i + 1)
    IN  collect(1)

computeRequiredCapabilities(apiCalls, commands) ==
    JsOr(CapsOfCalls(apiCalls, 1,
                     IF Len(commands) > 0 THEN JsOr(Zero, CAPABILITIES.COMMAND) ELSE Zero),
         CAPABILITIES.LOG)

----------------------------------------------------------------------------
(* AKMParser.generateIR / generateFunctionIR *)

\* an IR instruction; fields an instruction does not carry are undefined / absent
Ins(op) ==
    [op |-> op, value |-> Undefined, name |-> <<>>, func |-> <<>>, method |-> <<>>, argc |-> 0,
     arg |-> 0, label |-> <<>>, target |-> 0]
InsValue(op, v) == [Ins(op) EXCEPT !.value = v]
InsName(op, name) == [Ins(op) EXCEPT !.name = name]
InsCallApi(method, argc) == [Ins(OPCODES.CALL_API) EXCEPT !.method = method, !.argc = argc]
InsCall(func, argc) == [Ins(OPCODES.CALL) EXCEPT !.func = func, !.argc = argc]
InsStore(name, v) == [Ins(OPCODES.STORE_LOCAL) EXCEPT !.name = name, !.value = v]

\* const addString = (s) => { if (!stringTable.has(s)) ... ir.strings.push(s) }
addString(strings, s) ==
    IF \E i \in 1..Len(strings) : strings[i] = s THEN strings ELSE Append(strings, s)

RECURSIVE addStrings(_, _)
addStrings(strings, ss) ==
    IF ss = <<>> THEN strings ELSE addStrings(addString(strings, Head(ss)), Tail(ss))

\* the instruction pushed for one argument of an AKM call
ArgIR(arg) ==
    LET value == evaluateLiteral(arg)
    IN  IF TypeOf(value) = "string" THEN InsValue(OPCODES.PUSH_STR, value)
        ELSE IF TypeOf(value) = "number" THEN InsValue(OPCODES.PUSH, value)
        ELSE IF arg.type = "Identifier" THEN InsName(OPCODES.LOAD_LOCAL, arg.name)
        ELSE InsValue(OPCODES.PUSH, NumV(Zero))

\* the instructions one visited statement appends (the switch of the walk)
StatementIR(n) ==
    CASE n.kind = "api" ->
            [i \in 1..Len(n.args) |-> ArgIR(n.args[i])] \o <<InsCallApi(n.method, Len(n.args))>>
      [] n.kind = "call" -> <<InsCall(n.func, n.argc)>>
      [] n.kind = "return" ->
            (IF n.hasArg THEN <<InsValue(OPCODES.PUSH, evaluateLiteral(n.argument))>> ELSE <<>>)
            \o <<Ins(OPCODES.RET)>>
      [] n.kind = "var" ->
            IF n.hasInit THEN <<InsStore(n.name, evaluateLiteral(n.init))>> ELSE <<>>
      [] OTHER -> <<>>

\* the strings one visited statement adds to the string table
StatementStrings(n) ==
    IF n.kind = "api"
    THEN LET RECURSIVE collect(_)
             collect(i) ==
                IF i > Len(n.args) THEN <<>>
                ELSE (IF TypeOf(evaluateLiteral(n.args[i])) = "string"
                      THEN <<evaluateLiteral(n.args[i])>> ELSE <<>>) \o collect(i + 1)
         IN  collect(1)
    ELSE <<>>

StatementLocals(n) == IF n.kind = "var" THEN <<n.name>> ELSE <<>>

\* the list left as the walk built it
ensureReturnSkipped(instructions) == instructions

ensureReturn(instructions) ==
    IF Len(instructions) = 0 \/ instructions[Len(instructions)].op # OPCODES.RET
    THEN Append(instructions, Ins(OPCODES.RET)) ELSE instructions

generateFunctionIR(node, irFunc, strings) ==
    LET body == node.body
    IN  [func |-> [irFunc EXCEPT
                      !.instructions =
                          ensureReturn(Flatten([i \in 1..Len(body) |-> StatementIR(body[i])])),
                      !.locals = Flatten([i \in 1..Len(body) |-> StatementLocals(body[i])])],
         strings |-> addStrings(strings, Flatten([i \in 1..Len(body) |-> StatementStrings(body[i])]))]

\* Array.prototype.splice(at, 0, ...items), at counted from 0
Splice(list, at, items) == SubSeq(list, 1, at) \o items \o SubSeq(list, at + 1, Len(list))

regCalls(cmd) ==
    << InsValue(OPCODES.PUSH_STR, cmd.name),
       InsValue(OPCODES.PUSH_STR, cmd.syntax),
       InsValue(OPCODES.PUSH_STR, cmd.description),
       InsValue(OPCODES.PUSH_STR, cmd.category),
       InsValue(OPCODES.PUSH, NumV(Zero)),
       InsCallApi(STR_registerCommand, 5),
       Ins(OPCODES.POP) >>

\* the registration calls spliced in before the last RET instead
InjectCommandsBeforeFinalRet(instructions, commands) ==
    LET insertIdx == Len(instructions) - 1
        RECURSIVE each(_, _)
        each(list, c) == IF c > Len(commands) THEN list
                         ELSE each(Splice(list, insertIdx, regCalls(commands[c])), c + 1)
    IN  each(instructions, 1)

\* inject the command registration calls of init
InjectCommands(instructions, commands) ==
    LET returnIdx == IndexOf([i \in 1..Len(instructions) |-> instructions[i].op], OPCODES.RET) - 1
        insertIdx == IF returnIdx >= 0 THEN returnIdx ELSE Len(instructions)
        RECURSIVE each(_, _)
        each(list, c) == IF c > Len(commands) THEN list
                         ELSE each(Splice(list, insertIdx, regCalls(commands[c])), c + 1)
    IN  each(instructions, 1)

\* the irFunc object generateIR starts a function with
newIrFunction(name, params) ==
    [name |-> name, params |-> params, instructions |-> <<>>, locals |-> <<>>,
     isInit |-> name = STR_init, isExit |-> name = STR_exit]

\* the lowered function, with the registration calls of the commands when it is init
withCommands(func, commands) ==
    IF func.name = STR_init /\ Len(commands) > 0
    THEN [func EXCEPT !.instructions = InjectCommands(@, commands)]
    ELSE func

generateIR(functions, commands, apiCalls) ==
    LET cmdStrings == Flatten([c \in 1..Len(commands) |->
                          <<commands[c].name, commands[c].syntax,
                            commands[c].description, commands[c].category>>])
        RECURSIVE eachFunction(_, _, _)
        RECURSIVE push(_, _, _)
        push(i, irFunctions, lowered) ==
            eachFunction(i + 1, Append(irFunctions, withCommands(lowered.func, commands)),
                         lowered.strings)
        eachFunction(i, irFunctions, strings) ==
            IF i > Len(functions) THEN [functions |-> irFunctions, strings |-> strings]
            ELSE push(i, irFunctions,
                      generateFunctionIR(functions[i],
                                         newIrFunction(functions[i].name, functions[i].params),
                                         addString(strings, StrV(functions[i].name))))
        finish(fs) ==
            [strings |-> addStrings(fs.strings, [c \in 1..Len(apiCalls) |-> StrV(apiCalls[c].method)]),
             functions |-> fs.functions,
             commands |-> [c \in 1..Len(commands) |-> [handler |-> commands[c].handler]],
             apiCalls |-> [c \in 1..Len(apiCalls) |->
                              [method |-> apiCalls[c].method, argCount |-> Len(apiCalls[c].args)]]]
    IN  finish(eachFunction(1, <<>>, addStrings(<<>>, cmdStrings)))

\* the entry pushed with the location of the exception left out
syntaxErrorNoLoc(source, filename) ==
    [file |-> filename, line |-> 0, column |-> 0, message |-> "SyntaxError"]

\* the entry pushed in the catch block of parse: e.loc is where acorn stopped
syntaxError(source, filename) ==
    [file |-> filename, line |-> source.errorLoc.line, column |-> source.errorLoc.column,
     message |-> "SyntaxError"]

\* "Merge with declared capabilities"
mergeCapabilities(moduleConfig, requiredCaps) ==
    [moduleConfig EXCEPT !.capabilities =
        IF Truthy(moduleConfig.capabilities)
        THEN NumV(JsOr(ToInt32V(moduleConfig.capabilities), requiredCaps))
        ELSE NumV(requiredCaps)]

\* parse from the extraction of the API calls on
parseExtracted(moduleConfig, functions, commands, apiCalls, filename) ==
    [parsed |-> TRUE,
     moduleConfig |-> mergeCapabilities(moduleConfig, computeRequiredCapabilities(apiCalls, commands)),
     functions |-> functions,
     commands |-> commands,
     apiCalls |-> apiCalls,
     ir |-> generateIR(functions, commands, apiCalls),
     errors |-> <<>>,
     warnings |-> WarningsOfCalls(apiCalls, filename)]

\* AKMParser.parse
parse(source, filename) ==
    IF ~source.syntaxOk
    THEN [parsed |-> FALSE, errors |-> <<syntaxError(source, filename)>>, warnings |-> <<>>]
    ELSE parseExtracted(extractModuleConfig(source), extractFunctions(source),
                        extractCommands(source), extractAPICalls(source), filename)

\* the fields of an AKMParser fresh from its constructor
NewParser == [currentFile |-> "", errors |-> <<>>, warnings |-> <<>>]

\* the assignments that open parse: the file name is noted, both lists start empty
resetParser(parser, filename) == [currentFile |-> filename, errors |-> <<>>, warnings |-> <<>>]

\* parse on a parser whose lists were reset to `fresh`: what the call found is pushed onto them
parseOnReset(fresh, found) ==
    [result |-> [found EXCEPT !.errors = fresh.errors \o @, !.warnings = fresh.warnings \o @],
     parser |-> [currentFile |-> fresh.currentFile,
                 errors |-> fresh.errors \o found.errors,
                 warnings |-> fresh.warnings \o found.warnings]]

\* AKMParser.parse, called on a parser whose fields are `parser`
parseOn(parser, source, filename) ==
    parseOnReset(resetParser(parser, filename), parse(source, filename))

----------------------------------------------------------------------------
(* Strings to bytes *)

\* the UTF-8 encoding of one code unit of the Basic Multilingual Plane
Utf8Unit(c) ==
    IF c < 128 THEN <<c>>
    ELSE IF c < 2048 THEN <<192 + (c \div 64), 128 + (c % 64)>>
    ELSE <<224 + (c \div 4096), 128 + ((c \div 64) % 64), 128 + (c % 64)>>

Utf8(str) == Flatten([i \in 1..Len(str) |-> Utf8Unit(str[i])])

STR_undefined == <<117, 110, 100, 101, 102, 105, 110, 101, 100>>
STR_null == <<110, 117, 108, 108>>

\* string concatenation `value + ...` of a table entry
ToStr(v) ==
    CASE v.t = "string" -> v.s
      [] v.t = "null" -> STR_null
      [] OTHER -> STR_undefined

\* Buffer.from(str + '\0', 'utf8')
CString(v) == Append(Utf8(ToStr(v)), 0)

----------------------------------------------------------------------------
(* AKMCodeGen *)

\* buildStringTable: entries with their offsets; the offsets map is keyed by content
buildStringTableEntries(strings) ==
    LET RECURSIVE each(_, _, _)
        each(i, offset, entries) ==
            IF i > Len(strings) THEN entries
            ELSE LET length == Len(CString(strings[i]))
                 IN  each(i + 1, offset + length,
                          Append(entries, [string |-> strings[i], offset |-> offset, length |-> length]))
    IN  each(1, 0, <<>>)

\* stringTable.offsets.get(key): the offset set last for this key, undefined (-1) when unset
OffsetsGet(entries, key) ==
    IF \E i \in 1..Len(entries) : entries[i].string = key
    THEN entries[CHOOSE i \in 1..Len(entries) :
                    /\ entries[i].string = key
                    /\ \A j \in (i + 1)..Len(entries) : entries[j].string # key].offset
    ELSE -1

\* stringTable.offsets.get(key) || 0
OffsetOrZero(entries, key) == IF OffsetsGet(entries, key) = -1 THEN 0 ELSE OffsetsGet(entries, key)

NewCodeGen == [code |-> <<>>, labels |-> <<>>, fixups |-> <<>>, currentOffset |-> 0]

emit(cg, byte) ==
    [cg EXCEPT !.code = Append(@, byte % 256), !.currentOffset = @ + 1]

\* emitInt32 that leaves currentOffset where it was
emitInt32Uncounted(cg, value) ==
    [cg EXCEPT !.code = @ \o LE32(value)]

emitInt32(cg, value) ==
    [cg EXCEPT !.code = @ \o LE32(value), !.currentOffset = @ + 4]

emitInt16(cg, value) ==
    [cg EXCEPT !.code = @ \o SubSeq(LE32(value), 1, 2), !.currentOffset = @ + 2]

emitValue(cg, value, stringTable) ==
    IF value.t = "number" THEN emitInt32(cg, value.n)
    ELSE IF value.t = "nan" THEN emitInt32(cg, Zero)
    ELSE IF value.t = "string" THEN emitInt32(cg, Num(OffsetOrZero(stringTable, value)))
    ELSE emitInt32(cg, Zero)

addFixup(cg, label) ==
    [cg EXCEPT !.fixups = Append(@, [offset |-> cg.currentOffset, label |-> label])]

\* Object.keys(API_FUNCTIONS).indexOf(method), 0xFF when absent
getAPIIndex(method) ==
    LET idx == IndexOf([i \in 1..Len(API_FUNCTIONS) |-> API_FUNCTIONS[i].name], method) - 1
    IN  IF idx >= 0 THEN idx ELSE 255

\* func.locals.indexOf(name)
LocalIndex(func, name) == IndexOf(func.locals, name) - 1

SingleByteOps ==
    {OPCODES.ADD, OPCODES.SUB, OPCODES.MUL, OPCODES.DIV, OPCODES.MOD, OPCODES.NEG, OPCODES.INC,
     OPCODES.DEC, OPCODES.AND, OPCODES.OR, OPCODES.XOR, OPCODES.NOT, OPCODES.SHL, OPCODES.SHR,
     OPCODES.EQ, OPCODES.NE, OPCODES.LT, OPCODES.LE, OPCODES.GT, OPCODES.GE,
     OPCODES.POP, OPCODES.DUP, OPCODES.SWAP, OPCODES.NOP, OPCODES.HALT}

generateInstruction(cg, instr, stringTable, func) ==
    CASE instr.op = OPCODES.PUSH ->
            emitValue(emit(cg, OPCODES.PUSH), instr.value, stringTable)
      [] instr.op = OPCODES.PUSH_ARG ->
            emit(emit(cg, OPCODES.PUSH_ARG), instr.arg)
      [] instr.op = OPCODES.PUSH_STR ->
            emitInt32(emit(cg, OPCODES.PUSH_STR), Num(OffsetOrZero(stringTable, instr.value)))
      [] instr.op = OPCODES.STORE_LOCAL ->
            emit(emit(emitValue(emit(cg, OPCODES.PUSH), instr.value, stringTable),
                      OPCODES.STORE_LOCAL),
                 LocalIndex(func, instr.name))
      [] instr.op = OPCODES.LOAD_LOCAL ->
            emit(emit(cg, OPCODES.LOAD_LOCAL), LocalIndex(func, instr.name))
      [] instr.op = OPCODES.CALL ->
            emit(emitInt32(addFixup(emit(cg, OPCODES.CALL), instr.func), Zero), instr.argc)
      [] instr.op = OPCODES.CALL_API ->
            emit(emit(emit(cg, OPCODES.CALL_API), getAPIIndex(instr.method)), instr.argc)
      [] instr.op = OPCODES.RET -> emit(cg, OPCODES.RET)
      [] instr.op \in {OPCODES.JMP, OPCODES.JZ, OPCODES.JNZ} ->
            emitInt32(IF instr.label # <<>> THEN addFixup(emit(cg, instr.op), instr.label)
                      ELSE emit(cg, instr.op),
                      Num(instr.target))
      [] instr.op \in SingleByteOps -> emit(cg, instr.op)
      [] OTHER -> emit(cg, OPCODES.NOP)

RECURSIVE generateBody(_, _, _, _, _)
generateBody(cg, instructions, i, stringTable, func) ==
    IF i > Len(instructions) THEN cg
    ELSE CHOOSE r \in {generateBody(c, instructions, i + 1, stringTable, func) :
                         c \in {generateInstruction(cg, instructions[i], stringTable, func)}} : TRUE

RECURSIVE allocateLocals(_, _)
allocateLocals(cg, n) ==
    IF n = 0 THEN cg ELSE allocateLocals(emitInt32(emit(cg, OPCODES.PUSH), Zero), n - 1)

\* generateFunction up to its body: the label of the function, the NOP, one PUSH 0 per local
enterFunction(cg, func) ==
    LET entry == [cg EXCEPT !.labels = Append(@, [name |-> func.name, offset |-> cg.currentOffset])]
    IN  allocateLocals(emit(entry, OPCODES.NOP), Len(func.locals))

generateFunction(cg, func, stringTable) ==
    generateBody(enterFunction(cg, func), func.instructions, 1, stringTable, func)

\* labels.get(label): undefined is -1
LabelsGet(labels, label) ==
    IF \E i \in 1..Len(labels) : labels[i].name = label
    THEN labels[CHOOSE i \in 1..Len(labels) :
                   /\ labels[i].name = label
                   /\ \A j \in (i + 1)..Len(labels) : labels[j].name # label].offset
    ELSE -1

\* code[offset .. offset + 3] = bytes; an assignment past the end grows the array
Patch(code, offset, bytes) ==
    [i \in 1..(IF offset + Len(bytes) > Len(code) THEN offset + Len(bytes) ELSE Len(code)) |->
        IF i > offset /\ i <= offset + Len(bytes) THEN bytes[i - offset]
        ELSE IF i <= Len(code) THEN code[i] ELSE 0]

\* no fixup is resolved: every placeholder stays
resolveFixupsSkipped(cg) == cg

resolveFixups(cg) ==
    LET RECURSIVE each(_, _)
        each(code, k) ==
            IF k > Len(cg.fixups) THEN code
            ELSE LET target == LabelsGet(cg.labels, cg.fixups[k].label)
                 IN  each(IF target # -1 THEN Patch(code, cg.fixups[k].offset, LE32(Num(target)))
                          ELSE code, k + 1)
    IN  [cg EXCEPT !.code = each(cg.code, 1)]

\* functionOffsets.get(name) || 0
FunctionOffsetOrZero(functionOffsets, name) ==
    IF LabelsGet(functionOffsets, name) = -1 THEN 0 ELSE LabelsGet(functionOffsets, name)

\* stubs that leave every handler unresolved
generateCommandStubsUnresolved(commands, stringTable, functionOffsets) ==
    [c \in 1..Len(commands) |->
        [nameOffset |-> OffsetOrZero(stringTable, commands[c].name),
         syntaxOffset |-> OffsetOrZero(stringTable, commands[c].syntax),
         descOffset |-> OffsetOrZero(stringTable, commands[c].description),
         categoryOffset |-> OffsetOrZero(stringTable, commands[c].category),
         handlerOffset |-> 0]]

generateCommandStubs(commands, stringTable, functionOffsets) ==
    [c \in 1..Len(commands) |->
        [nameOffset |-> OffsetOrZero(stringTable, commands[c].name),
         syntaxOffset |-> OffsetOrZero(stringTable, commands[c].syntax),
         descOffset |-> OffsetOrZero(stringTable, commands[c].description),
         categoryOffset |-> OffsetOrZero(stringTable, commands[c].category),
         handlerOffset |-> IF commands[c].handler.t = "string"
                           THEN FunctionOffsetOrZero(functionOffsets, commands[c].handler.s)
                           ELSE 0]]

buildDataSection(stringTable, commandStubs) ==
    Flatten([i \in 1..Len(stringTable) |-> CString(stringTable[i].string)])
    \o Flatten([c \in 1..Len(commandStubs) |->
                  LE32(Num(commandStubs[c].nameOffset)) \o LE32(Num(commandStubs[c].syntaxOffset))
                  \o LE32(Num(commandStubs[c].descOffset)) \o LE32(Num(commandStubs[c].categoryOffset))
                  \o LE32(Num(commandStubs[c].handlerOffset))])

\* the loop of generate that records a function's offset only after emitting it
RECURSIVE generateFunctionsLate(_, _, _, _, _)
generateFunctionsLate(cg, functionOffsets, irFunctions, i, stringTable) ==
    IF i > Len(irFunctions) THEN [cg |-> cg, functionOffsets |-> functionOffsets]
    ELSE LET after == generateFunction(cg, irFunctions[i], stringTable)
         IN  generateFunctionsLate(after,
                  Append(functionOffsets, [name |-> irFunctions[i].name, offset |-> after.currentOffset]),
                  irFunctions, i + 1, stringTable)

\* for (const func of ir.functions) { functionOffsets.set(...); this.generateFunction(...) }
RECURSIVE generateFunctions(_, _, _, _, _)
generateFunctions(cg, functionOffsets, irFunctions, i, stringTable) ==
    IF i > Len(irFunctions) THEN [cg |-> cg, functionOffsets |-> functionOffsets]
    ELSE CHOOSE r \in {generateFunctions(c,
                           Append(functionOffsets,
                                  [name |-> irFunctions[i].name, offset |-> cg.currentOffset]),
                           irFunctions, i + 1, stringTable) :
                         c \in {generateFunction(cg, irFunctions[i], stringTable)}} : TRUE

\* the assignments that open generate: the buffers of the previous call are dropped
resetCodeGenKept(cg) == cg

resetCodeGen(cg) == NewCodeGen

\* AKMCodeGen.generate, called on a code generator whose fields are cg
generateOn(cg, parseResult) ==
    LET ir == parseResult.ir
        result(functionOffsets, resolved, dataSection) ==
            [code |-> resolved.code,
             data |-> dataSection,
             strings |-> ir.strings,
             functions |-> functionOffsets,
             commands |-> ir.commands,
             initOffset |-> FunctionOffsetOrZero(functionOffsets, STR_init),
             exitOffset |-> FunctionOffsetOrZero(functionOffsets, STR_exit),
             codeSize |-> Len(resolved.code),
             dataSize |-> Len(dataSection),
             fixups |-> resolved.fixups,
             labels |-> resolved.labels,
             currentOffset |-> resolved.currentOffset]
        afterFunctions(stringTable, emitted) ==
            result(emitted.functionOffsets, resolveFixups(emitted.cg),
                   buildDataSection(stringTable,
                                    generateCommandStubs(parseResult.commands, stringTable,
                                                         emitted.functionOffsets)))
        withStringTable(stringTable) ==
            afterFunctions(stringTable,
                           generateFunctions(resetCodeGen(cg), <<>>, ir.functions, 1, stringTable))
    IN  withStringTable(buildStringTableEntries(ir.strings))

\* generate on a code generator fresh from its constructor
generate(parseResult) == generateOn(NewCodeGen, parseResult)

----------------------------------------------------------------------------
(* AKMBinaryWriter *)

\* Buffer.alloc(n)
Alloc(n) == [i \in 1..n |-> 0]

\* store bytes at a byte offset of a buffer (nothing is stored past its end)
Put(buffer, offset, bytes) ==
    [i \in 1..Len(buffer) |->
        IF i > offset /\ i <= offset + Len(bytes) THEN bytes[i - offset] ELSE buffer[i]]

\* (str || '').slice(0, maxLen - 1), then buffer.write(s, offset, 'utf8')
writeFixedString(buffer, offset, str, maxLen) ==
    LET whole == IF Truthy(str) THEN str.s ELSE <<>>
        s == SubSeq(whole, 1, Min(Len(whole), maxLen - 1))
    IN  Put(buffer, offset, Utf8(s))

\* a truthy value that is not a string has no usable slice / cannot be written
FixedStringThrows(str) == Truthy(str) /\ str.t # "string"

buildSymbolTable(codegenResult) ==
    LET functions == codegenResult.functions
        RECURSIVE each(_, _)
        each(i, nameOffset) ==
            IF i > Len(functions) THEN <<>>
            ELSE (LE32(Num(nameOffset)) \o LE32(Num(functions[i].offset)) \o LE16(0)
                  \o <<AKM_FORMAT.SYM_FUNC, AKM_FORMAT.BIND_GLOBAL>>)
                 \o each(i + 1, nameOffset + Len(functions[i].name) + 1)
    IN  each(1, 0)

buildStringTable(strings) == Flatten([i \in 1..Len(strings) |-> CString(strings[i])])

\* moduleInfo.dependencies as a list
DependencyList(dependencies) ==
    CASE dependencies.t = "array" -> dependencies.items
      [] dependencies.t = "string" -> [i \in 1..Len(dependencies.s) |-> StrV(<<dependencies.s[i]>>)]
      [] OTHER -> <<>>

\* writeUInt8 / writeUInt32LE reject values outside the unsigned range
WriteThrows(moduleInfo) ==
    \/ FixedStringThrows(moduleInfo.name)
    \/ FixedStringThrows(moduleInfo.version)
    \/ FixedStringThrows(moduleInfo.author)
    \/ ~IsU32(moduleInfo.capabilities.n)
    \/ \E i \in 1..Min(Len(DependencyList(moduleInfo.dependencies)), 4) :
          FixedStringThrows(DependencyList(moduleInfo.dependencies)[i])
    \/ moduleInfo.securityLevel.t # "number"
    \/ moduleInfo.securityLevel.n.hi # 0 \/ moduleInfo.securityLevel.n.lo > 255

\* the four dependency slots
RECURSIVE writeDependencies(_, _, _, _)
writeDependencies(headerBuf, deps, depCount, i) ==
    IF i >= 4 THEN headerBuf
    ELSE writeDependencies(
            IF i < depCount /\ Truthy(deps[i + 1])
            THEN writeFixedString(headerBuf, 216 + 32 * i, deps[i + 1], 32) ELSE headerBuf,
            deps, depCount, i + 1)

\* a layout in which the symbol table starts where the data section starts
SectionLayoutOverlapping(codegenResult, symtab, strtab) ==
    LET codeOffset == 512
        codeSize == Len(codegenResult.code)
        dataOffset == codeOffset + codeSize
        dataSize == Len(codegenResult.data)
        symtabOffset == dataOffset
        symtabSize == Len(symtab)
        strtabOffset == symtabOffset + symtabSize
        strtabSize == Len(strtab)
    IN  [codeOffset |-> codeOffset, codeSize |-> codeSize, dataOffset |-> dataOffset,
         dataSize |-> dataSize, symtabOffset |-> symtabOffset, symtabSize |-> symtabSize,
         strtabOffset |-> strtabOffset, strtabSize |-> strtabSize,
         totalSize |-> strtabOffset + strtabSize]

\* "Calculate section offsets (header is 512 bytes)"
SectionLayout(codegenResult, symtab, strtab) ==
    LET codeOffset == 512
        codeSize == Len(codegenResult.code)
        dataOffset == codeOffset + codeSize
        dataSize == Len(codegenResult.data)
        symtabOffset == dataOffset + dataSize
        symtabSize == Len(symtab)
        strtabOffset == symtabOffset + symtabSize
        strtabSize == Len(strtab)
    IN  [codeOffset |-> codeOffset, codeSize |-> codeSize, dataOffset |-> dataOffset,
         dataSize |-> dataSize, symtabOffset |-> symtabOffset, symtabSize |-> symtabSize,
         strtabOffset |-> strtabOffset, strtabSize |-> strtabSize,
         totalSize |-> strtabOffset + strtabSize]

\* the header with every field but the two checksums
HeaderFields(codegenResult, moduleInfo, options, symtab, strtab) ==
    LET layout == SectionLayout(codegenResult, symtab, strtab)
        codeOffset == layout.codeOffset
        codeSize == layout.codeSize
        dataOffset == layout.dataOffset
        dataSize == layout.dataSize
        symtabOffset == layout.symtabOffset
        symtabSize == layout.symtabSize
        strtabOffset == layout.strtabOffset
        strtabSize == layout.strtabSize
        totalSize == layout.totalSize
        flags == IF options.debug THEN 1 ELSE 0
        deps == DependencyList(moduleInfo.dependencies)
        depCount == Min(Len(deps), 4)
        b0 == Put(Put(Put(Put(Put(Alloc(512), 0, LE32(AKM_FORMAT.MAGIC_V2)), 4, LE16(2)),
                          6, LE16(flags)), 8, LE32(Num(512))), 12, LE32(Num(totalSize)))
        b1 == writeFixedString(writeFixedString(writeFixedString(b0, 16, moduleInfo.name, 32),
                                                48, moduleInfo.version, 16),
                               64, moduleInfo.author, 32)
        b2 == Put(Put(Put(Put(b1, 96, LE16(moduleInfo.apiVersion % 65536)),
                          100, LE32(moduleInfo.kernelMinVersion)),
                      104, LE32(moduleInfo.kernelMaxVersion)),
                  108, LE32(moduleInfo.capabilities.n))
        b3 == Put(Put(Put(Put(Put(Put(Put(b2, 116, LE32(Num(codeOffset))), 120, LE32(Num(codeSize))),
                                  124, LE32(Num(dataOffset))), 128, LE32(Num(dataSize))),
                          132, LE32(Zero)), 136, LE32(Zero)), 140, LE32(Zero))
        b4 == Put(Put(b3, 164, LE32(Num(codegenResult.initOffset))),
                  168, LE32(Num(codegenResult.exitOffset)))
        b5 == Put(Put(Put(Put(b4, 180, LE32(Num(symtabOffset))), 184, LE32(Num(symtabSize))),
                      188, LE32(Num(strtabOffset))), 192, LE32(Num(strtabSize)))
        b6 == writeDependencies(Put(b5, 212, <<depCount>>), deps, depCount, 0)
    IN  Put(Put(b6, 344, <<moduleInfo.securityLevel.n.lo>>), 345, <<0>>)

\* the header checksummed whole, the checksum slot included
headerForChecksumWhole(headerBuf, checksumOffset) == headerBuf

\* Buffer.concat([headerBuf.slice(0, checksumOffset), headerBuf.slice(checksumOffset + 4)])
headerForChecksum(headerBuf, checksumOffset) ==
    SubSeq(headerBuf, 1, checksumOffset) \o SubSeq(headerBuf, checksumOffset + 5, Len(headerBuf))

\* AKMBinaryWriter.write
write(codegenResult, moduleInfo, options) ==
    LET code == codegenResult.code
        data == codegenResult.data
        checksumOffset == 348
        \* headerBuf holds every field and the content checksum: add the header checksum
        concat(headerBuf, sections) ==
            [threw |-> FALSE, error |-> "",
             binary |-> Put(headerBuf, checksumOffset,
                            LE32(calculateChecksum(headerForChecksum(headerBuf, checksumOffset))))
                        \o sections]
        withTables(symtab, strtab) ==
            concat(Put(HeaderFields(codegenResult, moduleInfo, options, symtab, strtab),
                       checksumOffset + 4,
                       LE32(calculateChecksum(code \o data \o symtab \o strtab))),
                   code \o data \o symtab \o strtab)
    IN  IF WriteThrows(moduleInfo) THEN [threw |-> TRUE, error |-> "RangeError", binary |-> <<>>]
        ELSE withTables(buildSymbolTable(codegenResult), buildStringTable(codegenResult.strings))

----------------------------------------------------------------------------
(* The arithmetic of AKMOptimizer.constantFolding: JavaScript's operators   *)
(* on integer-valued doubles.  A result of magnitude 2^47 or more is the    *)
(* record [hh, hl, hi, lo] of four 16-bit limbs (hh signed), so that hi     *)
(* and lo are bits 16..31 and 0..15 in both forms.                          *)

IsNeg(x) == x.hi < 0
Abs(x) == IF IsNeg(x) THEN JsNeg(x) ELSE x

\* a + b and a - b (exact: the operands are far below 2^53)
JsAdd(a, b) ==
    [hi |-> a.hi + b.hi + ((a.lo + b.lo) \div 65536), lo |-> (a.lo + b.lo) % 65536]
JsSub(a, b) == JsAdd(a, JsNeg(b))

\* the exact product of two magnitudes below 2^32, as eight little-endian bytes
MulTerm(A, B, i, k) == IF (k - i + 1) \in 1..4 THEN A[i] * B[k - i + 1] ELSE 0
MulColumn(A, B, k) == MulTerm(A, B, 1, k) + MulTerm(A, B, 2, k) + MulTerm(A, B, 3, k) + MulTerm(A, B, 4, k)

RECURSIVE MulBytes(_, _, _, _)
MulBytes(A, B, k, carry) ==
    IF k > 8 THEN <<>>
    ELSE <<(MulColumn(A, B, k) + carry) % 256>>
         \o MulBytes(A, B, k + 1, (MulColumn(A, B, k) + carry) \div 256)

RECURSIVE BitLen(_)
BitLen(n) == IF n = 0 THEN 0 ELSE 1 + BitLen(n \div 2)

BitLenBytes(P) ==
    LET nz == {k \in 1..Len(P) : P[k] # 0}
        top == CHOOSE k \in nz : \A j \in nz : j <= k
    IN  IF nz = {} THEN 0 ELSE 8 * (top - 1) + BitLen(P[top])

\* add `carry` into byte k of a little-endian number
RECURSIVE AddCarry(_, _, _)
AddCarry(P, k, carry) ==
    IF carry = 0 \/ k > Len(P) THEN P
    ELSE AddCarry([P EXCEPT ![k] = (@ + carry) % 256], k + 1, (P[k] + carry) \div 256)

\* doubles keep 53 significant bits
MantissaBits == 53

\* a product that needs more than 53 bits is rounded to the nearest double, ties to even
RoundToDouble(P) ==
    LET d == BitLenBytes(P) - MantissaBits
        low == P[1] + 256 * P[2]
        rem == low % (2 ^ d)
        kept == low - rem
        up == rem > 2 ^ (d - 1) \/ (rem = 2 ^ (d - 1) /\ (low \div (2 ^ d)) % 2 = 1)
        cut == [P EXCEPT ![1] = kept % 256, ![2] = kept \div 256]
    IN  IF d <= 0 THEN P ELSE IF up THEN AddCarry(cut, 1, 2 ^ d) ELSE cut

Limb(P, k) == P[2 * k + 1] + 256 * P[2 * k + 2]

\* the number a sign and eight magnitude bytes stand for
FromMagnitude(P, negative) ==
    LET T == AddCarry([k \in 1..8 |-> 255 - P[k]], 1, 1)
    IN  IF ~negative \/ BitLenBytes(P) = 0
        THEN IF Limb(P, 3) = 0 /\ Limb(P, 2) < 32768
             THEN [hi |-> Limb(P, 2) * 65536 + Limb(P, 1), lo |-> Limb(P, 0)]
             ELSE [hh |-> Limb(P, 3), hl |-> Limb(P, 2), hi |-> Limb(P, 1), lo |-> Limb(P, 0)]
        ELSE IF Limb(T, 3) = 65535 /\ Limb(T, 2) >= 32768
             THEN [hi |-> (Limb(T, 2) - 65536) * 65536 + Limb(T, 1), lo |-> Limb(T, 0)]
             ELSE [hh |-> Limb(T, 3) - 65536, hl |-> Limb(T, 2), hi |-> Limb(T, 1), lo |-> Limb(T, 0)]

\* a * b: the exact product rounded to a double
JsMul(a, b) ==
    FromMagnitude(RoundToDouble(MulBytes(LE32(Abs(a)), LE32(Abs(b)), 1, 0)), IsNeg(a) # IsNeg(b))

\* quotient and remainder of two magnitudes below 2^32, bit by bit
MagGE(x, y) == x.hi > y.hi \/ (x.hi = y.hi /\ x.lo >= y.lo)
Shl1Add(r, bit) ==
    [hi |-> r.hi * 2 + ((r.lo * 2 + bit) \div 65536), lo |-> (r.lo * 2 + bit) % 65536]
MagBit(x, k) == IF k < 16 THEN (x.lo \div (2 ^ k)) % 2 ELSE (x.hi \div (2 ^ (k - 16))) % 2

RECURSIVE MagDivMod(_, _, _, _, _)
MagDivMod(A, B, k, q, r) ==
    IF k < 0 THEN [q |-> q, r |-> r]
    ELSE IF MagGE(Shl1Add(r, MagBit(A, k)), B)
    THEN MagDivMod(A, B, k - 1, Shl1Add(q, 1), JsSub(Shl1Add(r, MagBit(A, k)), B))
    ELSE MagDivMod(A, B, k - 1, Shl1Add(q, 0), Shl1Add(r, MagBit(A, k)))

\* Math.floor(a / b) for b # 0
JsFloorDiv(a, b) ==
    LET dm == MagDivMod(Abs(a), Abs(b), 31, Zero, Zero)
    IN  IF IsNeg(a) = IsNeg(b) THEN dm.q
        ELSE IF dm.r = Zero THEN JsNeg(dm.q) ELSE JsNeg(JsAdd(dm.q, Num(1)))

\* a % b for b # 0: the remainder has the sign of the dividend
JsRem(a, b) ==
    LET dm == MagDivMod(Abs(a), Abs(b), 31, Zero, Zero)
    IN  IF IsNeg(a) THEN JsNeg(dm.r) ELSE dm.r

\* a ^ b
BitXorN(a, b) == BitOrN(a, b) - BitAndN(a, b)
JsXor(a, b) ==
    ToInt32([hi |-> BitXorN(a.hi % 65536, b.hi % 65536), lo |-> BitXorN(a.lo, b.lo)])

\* a << b: the count is b & 31
JsShl(a, b) ==
    LET k == b.lo % 32
        u == ToUint32(a)
    IN  ToInt32(IF k < 16
                THEN [hi |-> (u.hi * (2 ^ k) + (u.lo \div (2 ^ (16 - k)))) % 65536,
                      lo |-> (u.lo * (2 ^ k)) % 65536]
                ELSE [hi |-> (u.lo * (2 ^ (k - 16))) % 65536, lo |-> 0])

\* a >>> b: the count is b & 31, the result is unsigned
JsUshr(a, b) ==
    LET k == b.lo % 32
        u == ToUint32(a)
    IN  IF k < 16
        THEN [hi |-> u.hi \div (2 ^ k), lo |-> (u.lo \div (2 ^ k)) + (u.hi % (2 ^ k)) * (2 ^ (16 - k))]
        ELSE [hi |-> 0, lo |-> u.hi \div (2 ^ (k - 16))]

\* the operand of a bitwise operator or a shift: NaN counts as 0
Int32Operand(v) == IF v.t = "number" THEN v.n ELSE Zero

\* the switch of constantFolding on next2.op: the folded value, Null when nothing is folded
FoldResult(op, a, b) ==
    LET arith(n) == IF a.t = "nan" \/ b.t = "nan" THEN NaN ELSE NumV(n)
        x == Int32Operand(a)
        y == Int32Operand(b)
    IN  CASE op = OPCODES.ADD -> arith(JsAdd(x, y))
          [] op = OPCODES.SUB -> arith(JsSub(x, y))
          [] op = OPCODES.MUL -> IF a.t = "nan" \/ b.t = "nan" THEN NaN ELSE NumV(JsMul(x, y))
          [] op = OPCODES.DIV ->
                IF b = NumV(Zero) THEN Null
                ELSE IF a.t = "nan" \/ b.t = "nan" THEN NaN ELSE NumV(JsFloorDiv(x, y))
          [] op = OPCODES.MOD ->
                IF b = NumV(Zero) THEN Null
                ELSE IF a.t = "nan" \/ b.t = "nan" THEN NaN ELSE NumV(JsRem(x, y))
          [] op = OPCODES.AND -> NumV(JsAnd(x, y))
          [] op = OPCODES.OR -> NumV(JsOr(x, y))
          [] op = OPCODES.XOR -> NumV(JsXor(x, y))
          [] op = OPCODES.SHL -> NumV(JsShl(x, y))
          [] op = OPCODES.SHR -> NumV(JsUshr(x, y))
          [] OTHER -> Null

----------------------------------------------------------------------------
(* The passes of AKMOptimizer on the instruction list of one function.  A   *)
(* list index is 0-based as in the source.                                  *)

\* the first sweep of deadCodeElimination: of the members of seenLabels only numbers
\* can equal a list index, and those are the targets (labels are names)
SeenLabels(instructions) ==
    {instructions[j].target : j \in {k \in 1..Len(instructions) : instructions[k].target # 0}}

Terminators == {OPCODES.RET, OPCODES.JMP, OPCODES.HALT}

\* the second sweep of deadCodeElimination, from index i on
RECURSIVE dceSweep(_, _, _, _)
dceSweep(instructions, i, reachable, seenLabels) ==
    IF i >= Len(instructions) THEN <<>>
    ELSE IF reachable \/ i \in seenLabels
    THEN <<instructions[i + 1]>>
         \o dceSweep(instructions, i + 1, instructions[i + 1].op \notin Terminators, seenLabels)
    ELSE dceSweep(instructions, i + 1, FALSE, seenLabels)

\* the loop of constantFolding, from index i on
RECURSIVE foldSweep(_, _)
foldSweep(instructions, i) ==
    IF i >= Len(instructions) THEN <<>>
    ELSE IF /\ i < Len(instructions) - 2
            /\ instructions[i + 1].op = OPCODES.PUSH
            /\ TypeOf(instructions[i + 1].value) = "number"
            /\ instructions[i + 2].op = OPCODES.PUSH
            /\ TypeOf(instructions[i + 2].value) = "number"
            /\ FoldResult(instructions[i + 3].op, instructions[i + 1].value,
                          instructions[i + 2].value) # Null
    THEN <<InsValue(OPCODES.PUSH,
                    FoldResult(instructions[i + 3].op, instructions[i + 1].value,
                               instructions[i + 2].value))>>
         \o foldSweep(instructions, i + 3)
    ELSE <<instructions[i + 1]>> \o foldSweep(instructions, i + 1)

\* the pairs peepholeOptimization drops: instr and the instruction after it
DroppedPair(instr, nextOp) ==
    \/ instr.op = OPCODES.PUSH /\ nextOp = OPCODES.POP
    \/ instr.op = OPCODES.NEG /\ nextOp = OPCODES.NEG
    \/ instr.op = OPCODES.NOT /\ nextOp = OPCODES.NOT
    \/ instr.op = OPCODES.PUSH /\ instr.value = NumV(Zero) /\ nextOp = OPCODES.ADD
    \/ instr.op = OPCODES.PUSH /\ instr.value = NumV(Num(1)) /\ nextOp = OPCODES.MUL
    \/ instr.op = OPCODES.DUP /\ nextOp = OPCODES.POP

\* the loop of peepholeOptimization, from index i on: a dropped pair skips two
\* instructions, a NOP one (no instruction carries isEntry, nothing sets it); the tests
\* of the source exclude each other, so their order does not matter
RECURSIVE peepholeSweep(_, _)
peepholeSweep(instructions, i) ==
    IF i >= Len(instructions) THEN <<>>
    ELSE IF i + 1 < Len(instructions) /\ DroppedPair(instructions[i + 1], instructions[i + 2].op)
    THEN peepholeSweep(instructions, i + 2)
    ELSE IF instructions[i + 1].op = OPCODES.NOP
    THEN peepholeSweep(instructions, i + 1)
    ELSE <<instructions[i + 1]>> \o peepholeSweep(instructions, i + 1)

\* for (const func of ir.functions) { ...; func.instructions = newInstructions }
EachFunction(ir, pass(_)) ==
    [ir EXCEPT !.functions =
        [f \in DOMAIN @ |-> [@[f] EXCEPT !.instructions = pass(@)]]]

dceOf(instructions) == dceSweep(instructions, 0, TRUE, SeenLabels(instructions))
foldOf(instructions) == foldSweep(instructions, 0)
peepholeOf(instructions) == peepholeSweep(instructions, 0)

deadCodeElimination(ir) == EachFunction(ir, dceOf)
constantFolding(ir) == EachFunction(ir, foldOf)
peepholeOptimization(ir) == EachFunction(ir, peepholeOf)

----------------------------------------------------------------------------
(* AKMOptimizer.optimize as the compiler calls it: on the code generator's  *)
(* result, whose `functions` is the map name -> offset.  Every entry of it  *)
(* is a [name, offset] pair without an `instructions` list, so the first    *)
(* sweep of deadCodeElimination throws on the first entry.                  *)

stringDeduplication(ir) ==
    [ir EXCEPT !.strings = addStrings(<<>>, @)]

optimize(ir) ==
    IF Len(ir.functions) > 0
    THEN [threw |-> TRUE, error |-> "TypeError", ir |-> ir]
    ELSE [threw |-> FALSE, error |-> "", ir |-> stringDeduplication(ir)]

----------------------------------------------------------------------------
(* AKMCompiler *)

\* options.capabilities of the constructor: null or a number
RECURSIVE OrNames(_, _)
OrNames(names, result) ==
    IF names = <<>> THEN result
    ELSE OrNames(Tail(names),
                 IF Head(names) \in DOMAIN CAPABILITIES
                 THEN JsOr(result, CAPABILITIES[Head(names)]) ELSE result)

parseCapabilities(caps) ==
    CASE caps.kind = "none" -> Null
      [] caps.kind = "number" -> IF caps.n = Zero THEN Null ELSE NumV(caps.n)
      [] caps.kind = "hex" -> NumV(caps.n)
      [] caps.kind = "names" -> NumV(OrNames(caps.names, Zero))

\* validateModule: the message of the error thrown, "" when the module passes
validateModuleNoExit(parseResult) ==
    IF ~parseResult.parsed THEN "Module must declare configuration using AKM.module()"
    ELSE IF ~Truthy(parseResult.moduleConfig.name) THEN "Module must have a name"
    ELSE IF ~HasFunction(parseResult.functions, STR_init) THEN "Module must have an init() function"
    ELSE ""

validateModule(parseResult) ==
    IF ~parseResult.parsed THEN "Module must declare configuration using AKM.module()"
    ELSE IF ~Truthy(parseResult.moduleConfig.name) THEN "Module must have a name"
    ELSE IF ~HasFunction(parseResult.functions, STR_init) THEN "Module must have an init() function"
    ELSE IF ~HasFunction(parseResult.functions, STR_exit) THEN "Module must have an exit() function"
    ELSE ""

extractModuleInfo(parseResult, options) ==
    LET config == parseResult.moduleConfig
    IN  [name |-> OrElse(config.name, StrV(STR_unnamed)),
         version |-> OrElse(config.version, StrV(STR_1_0_0)),
         author |-> OrElse(config.author, StrV(<<>>)),
         description |-> OrElse(config.description, StrV(<<>>)),
         license |-> OrElse(config.license, StrV(STR_MIT)),
         capabilities |-> OrElse(OrElse(parseCapabilities(options.capabilities), config.capabilities),
                                 NumV(Zero)),
         apiVersion |-> 512,
         kernelMinVersion |-> [hi |-> 8, lo |-> 0],
         kernelMaxVersion |-> Zero,
         dependencies |-> OrElse(config.dependencies, ArrV(<<>>)),
         securityLevel |-> OrElse(config.securityLevel, NumV(Zero))]

Failed(stages, error) ==
    [status |-> "error", error |-> error, stages |-> stages, binary |-> <<>>]

\* the end of compile: the binary writer has returned or thrown
compileWritten(written, stages) ==
    IF written.threw THEN Failed(stages, written.error)
    ELSE [status |-> "ok", error |-> "", stages |-> stages, binary |-> written.binary]

\* compile after the optimizer stage: "Write binary"
compileOptimized(optimized, moduleInfo, options) ==
    IF optimized.threw
    THEN Failed(<<"validate", "extract", "codegen", "optimize">>, optimized.error)
    ELSE compileWritten(write(optimized.ir, moduleInfo, options),
                        IF options.optimize
                        THEN <<"validate", "extract", "codegen", "optimize", "write">>
                        ELSE <<"validate", "extract", "codegen", "write">>)

\* compile after code generation: "Optimize if enabled"
compileGenerated(generated, moduleInfo, options) ==
    compileOptimized(IF options.optimize THEN optimize(generated)
                     ELSE [threw |-> FALSE, error |-> "", ir |-> generated],
                     moduleInfo, options)

\* AKMCompiler.compile: the stages run in order, the first throw ends the call
compile(parseResult, options) ==
    IF validateModule(parseResult) # "" THEN Failed(<<"validate">>, validateModule(parseResult))
    ELSE compileGenerated(generate(parseResult), extractModuleInfo(parseResult, options), options)

\* compile on an AKMCompiler object, after its code generator has run: the generator
\* keeps the buffers of this call until the next one
compileOnGenerated(generated, moduleInfo, options) ==
    [result |-> compileGenerated(generated, moduleInfo, options),
     codegen |-> [code |-> generated.code, labels |-> generated.labels,
                  fixups |-> generated.fixups, currentOffset |-> generated.currentOffset]]

\* AKMCompiler.compile, called on an object whose code generator has the fields `codegen`
compileOn(codegen, parseResult, options) ==
    IF validateModule(parseResult) # ""
    THEN [result |-> Failed(<<"validate">>, validateModule(parseResult)), codegen |-> codegen]
    ELSE compileOnGenerated(generateOn(codegen, parseResult),
                            extractModuleInfo(parseResult, options), options)

----------------------------------------------------------------------------
(* bin/akmcc.js: main, for a compile run (no --info) on an existing input file *)

\* the end of main: compile() has returned or thrown, the file is written on success
mainCompiled(result, options) ==
    IF result.status = "error"
    THEN [exitCode |-> 1, stderr |-> <<result.error>>, irWritten |-> options.emitIR,
          artifactWritten |-> FALSE, artifact |-> <<>>]
    ELSE [exitCode |-> 0, stderr |-> <<>>, irWritten |-> options.emitIR,
          artifactWritten |-> TRUE, artifact |-> result.binary]

\* main from the check of parseResult.errors on
mainParsed(parseResult, options) ==
    IF Len(parseResult.errors) > 0
    THEN [exitCode |-> 1, stderr |-> parseResult.errors, irWritten |-> FALSE,
          artifactWritten |-> FALSE, artifact |-> <<>>]
    ELSE IF options.dryRun
    THEN [exitCode |-> 0, stderr |-> <<>>, irWritten |-> options.emitIR,
          artifactWritten |-> FALSE, artifact |-> <<>>]
    ELSE mainCompiled(compile(parseResult, options), options)

main(source, options) == mainParsed(parse(source, "module.js"), options)

----------------------------------------------------------------------------
(* bin/akmcc.js: showModuleInfo, the inspector behind -i / --info *)

\* Buffer.readUInt16LE / readUInt8
ReadU16(buf, off) == buf[off + 1] + 256 * buf[off + 2]
ReadU8(buf, off) == buf[off + 1]

\* U+FFFD, what the decoder puts for bytes that are not UTF-8
Replacement == 65533

IsCont(b) == b >= 128 /\ b <= 191

\* one step of Buffer.toString('utf8') at byte i (1-based): the UTF-16 code units it
\* yields and the bytes it consumes; an ill-formed or cut sequence yields one U+FFFD
\* for its longest well-formed prefix
Utf8DecodeAt(bytes, i) ==
    LET b == bytes[i]
        at(k) == IF i + k <= Len(bytes) THEN bytes[i + k] ELSE -1
        bad(used) == [units |-> <<Replacement>>, used |-> used]
    IN  IF b < 128 THEN [units |-> <<b>>, used |-> 1]
        ELSE IF b >= 194 /\ b <= 223
        THEN IF IsCont(at(1)) THEN [units |-> <<(b - 192) * 64 + (at(1) - 128)>>, used |-> 2]
             ELSE bad(1)
        ELSE IF b >= 224 /\ b <= 239
        THEN IF ~(at(1) >= (IF b = 224 THEN 160 ELSE 128) /\ at(1) <= (IF b = 237 THEN 159 ELSE 191))
             THEN bad(1)
             ELSE IF ~IsCont(at(2)) THEN bad(2)
             ELSE [units |-> <<(b - 224) * 4096 + (at(1) - 128) * 64 + (at(2) - 128)>>, used |-> 3]
        ELSE IF b >= 240 /\ b <= 244
        THEN IF ~(at(1) >= (IF b = 240 THEN 144 ELSE 128) /\ at(1) <= (IF b = 244 THEN 143 ELSE 191))
             THEN bad(1)
             ELSE IF ~IsCont(at(2)) THEN bad(2)
             ELSE IF ~IsCont(at(3)) THEN bad(3)
             ELSE LET cp == (b - 240) * 262144 + (at(1) - 128) * 4096 + (at(2) - 128) * 64
                            + (at(3) - 128) - 65536
                  IN  [units |-> <<55296 + (cp \div 1024), 56320 + (cp % 1024)>>, used |-> 4]
        ELSE bad(1)

RECURSIVE Utf8DecodeFrom(_, _)
Utf8DecodeFrom(bytes, i) ==
    IF i > Len(bytes) THEN <<>>
    ELSE Utf8DecodeAt(bytes, i).units \o Utf8DecodeFrom(bytes, i + Utf8DecodeAt(bytes, i).used)

\* data.toString('utf8', start, end)
BufferToString(data, start, end) == Utf8DecodeFrom(SubSeq(data, start + 1, Min(end, Len(data))), 1)

LineTerminators == {10, 13, 8232, 8233}

\* str.replace(/\0.*$/, ''): cut at the first NUL that no line terminator follows
StripNul(str) ==
    LET cuts == {p \in 1..Len(str) :
                    str[p] = 0 /\ \A q \in (p + 1)..Len(str) : str[q] \notin LineTerminators}
    IN  IF cuts = {} THEN str
        ELSE SubSeq(str, 1, (CHOOSE p \in cuts : \A q \in cuts : p <= q) - 1)

\* a NUL-padded header field read back as a string
ReadFixedString(data, start, end) == StripNul(BufferToString(data, start, end))

\* the dependency names read back: empty slots are skipped
RECURSIVE ReadDependencies(_, _, _)
ReadDependencies(data, depCount, i) ==
    IF ~(i < depCount /\ i < 4) THEN <<>>
    ELSE (IF ReadFixedString(data, 216 + i * 32, 216 + (i + 1) * 32) # <<>>
          THEN <<ReadFixedString(data, 216 + i * 32, 216 + (i + 1) * 32)>>
          ELSE <<>>)
         \o ReadDependencies(data, depCount, i + 1)

\* capDefs, in the order Object.entries lists its integer keys
CapDefs ==
    << "COMMAND", "DRIVER", "FILESYSTEM", "NETWORK", "ENVVAR", "PROCESS", "MEMORY", "IRQ",
       "IO_PORT", "PCI", "TIMER", "LOG", "SYSINFO", "USER", "SECURITY", "PANIC", "DEBUG",
       "IPC", "CRYPTO", "ACPI" >>

\* bit k of a 32-bit pattern (k = 0 is the least significant)
BitSet(x, k) ==
    IF k < 16 THEN BitAndN(x.lo, 2 ^ k) # 0 ELSE BitAndN(x.hi % 65536, 2 ^ (k - 16)) # 0

\* the names of the bits set in a mask, in table order
RECURSIVE BitNames(_, _, _)
BitNames(mask, table, k) ==
    IF k > Len(table) THEN <<>>
    ELSE (IF BitSet(mask, k - 1) THEN <<table[k]>> ELSE <<>>) \o BitNames(mask, table, k + 1)

\* a version packed one byte per part
VersionStr(v) == <<v.hi % 256, v.lo \div 256, v.lo % 256>>

HexDigit(n) == IF n < 10 THEN 48 + n ELSE 55 + n

\* n.toString(16).toUpperCase() of an unsigned 32-bit number
RECURSIVE HexInt(_)
HexInt(n) == IF n < 16 THEN <<HexDigit(n)>> ELSE Append(HexInt(n \div 16), HexDigit(n % 16))

RECURSIVE HexPadded(_, _)
HexPadded(n, width) ==
    IF width = 0 THEN <<>> ELSE Append(HexPadded(n \div 16, width - 1), HexDigit(n % 16))

ToHexUpper(x) == IF x.hi = 0 THEN HexInt(x.lo) ELSE HexInt(x.hi) \o HexPadded(x.lo, 4)

\* the fields showModuleInfo reads from a header and prints
ModuleReport(data) ==
    [size |-> Len(data),
     formatVersion |-> ReadU16(data, 4),
     flags |-> ReadU16(data, 6),
     flagNames |-> BitNames(Num(ReadU16(data, 6)), <<"DEBUG", "NATIVE", "REQUIRED", "AUTOLOAD">>, 1),
     headerSize |-> ReadU32(data, 8),
     totalSize |-> ReadU32(data, 12),
     name |-> ReadFixedString(data, 16, 48),
     version |-> ReadFixedString(data, 48, 64),
     author |-> ReadFixedString(data, 64, 96),
     apiVersion |-> <<ReadU16(data, 96) \div 256, ReadU16(data, 96) % 256>>,
     kernelMin |-> VersionStr(ReadU32(data, 100)),
     kernelMaxAny |-> ReadU32(data, 104) = Zero,
     kernelMax |-> VersionStr(ReadU32(data, 104)),
     capabilities |-> ReadU32(data, 108),
     capNames |-> BitNames(ReadU32(data, 108), CapDefs, 1),
     codeOffset |-> ReadU32(data, 116),
     codeSize |-> ReadU32(data, 120),
     dataOffset |-> ReadU32(data, 124),
     dataSize |-> ReadU32(data, 128),
     rodataOffset |-> ReadU32(data, 132),
     rodataSize |-> ReadU32(data, 136),
     bssSize |-> ReadU32(data, 140),
     initOffset |-> ReadU32(data, 164),
     cleanupOffset |-> ReadU32(data, 168),
     symtabOffset |-> ReadU32(data, 180),
     symtabSize |-> ReadU32(data, 184),
     strtabOffset |-> ReadU32(data, 188),
     strtabSize |-> ReadU32(data, 192),
     depCount |-> ReadU8(data, 212),
     dependencies |-> ReadDependencies(data, ReadU8(data, 212), 0),
     securityLevel |-> ReadU8(data, 344),
     signatureType |-> ReadU8(data, 345),
     headerChecksum |-> ReadU32(data, 348),
     contentChecksum |-> ReadU32(data, 352)]

NoReport == [size |-> -1]

\* the magic showModuleInfo compares with, "AKM2"
InspectorMagic == [hi |-> 12877, lo |-> 19265]

\* showModuleInfo on a path: what the process prints and how it ends; a run that
\* returns to main ends with process.exit(0)
showModuleInfoAnyMagic(file) ==
    IF ~file.exists
    THEN [exitCode |-> 1, stderr |-> [kind |-> "not found", got |-> <<>>], report |-> NoReport]
    ELSE IF Len(file.data) < 512
    THEN [exitCode |-> 1, stderr |-> [kind |-> "too small", got |-> <<>>], report |-> NoReport]
    ELSE [exitCode |-> 0, stderr |-> [kind |-> "", got |-> <<>>], report |-> ModuleReport(file.data)]

showModuleInfo(file) ==
    IF ~file.exists
    THEN [exitCode |-> 1, stderr |-> [kind |-> "not found", got |-> <<>>], report |-> NoReport]
    ELSE IF Len(file.data) < 512
    THEN [exitCode |-> 1, stderr |-> [kind |-> "too small", got |-> <<>>], report |-> NoReport]
    ELSE IF ReadU32(file.data, 0) # InspectorMagic
    THEN [exitCode |-> 1,
          stderr |-> [kind |-> "magic", got |-> ToHexUpper(ReadU32(file.data, 0))],
          report |-> NoReport]
    ELSE [exitCode |-> 0, stderr |-> [kind |-> "", got |-> <<>>], report |-> ModuleReport(file.data)]

----------------------------------------------------------------------------
(* The sources and options the model compiles *)

STR_a == <<97>>
STR_b == <<98>>
STR_h == <<104>>
STR_x == <<120>>
STR_hi == <<104, 105>>
STR_foo == <<102, 111, 111>>
STR_info == <<105, 110, 102, 111>>
STR_outb == <<111, 117, 116, 98>>

\* statements a generated function body is made of
StmtPool ==
    { ApiCall(STR_info, <<Lit(StrV(STR_a))>>),
      ApiCall(STR_outb, <<Lit(NumV(Num(1))), Ident(STR_x)>>),
      ApiCall(STR_foo, <<Lit(NumV(Num(7)))>>),
      ApiCall(STR_toString, <<>>),
      ReturnArg(Lit(NumV(Zero))),
      VarInit(STR_x, Lit(NumV(Num(5)))),
      FuncCall(STR_h, 0) }

Bodies == SeqsUpTo(StmtPool, MaxStmts)
FewBodies == { <<>>, <<ApiCall(STR_outb, <<Lit(NumV(Num(1))), Lit(NumV(Num(2)))>>)>>,
               <<ApiCall(STR_foo, <<Lit(StrV(STR_b))>>), ReturnArg(Lit(NumV(Zero)))>> }

Func(name, body) == [name |-> name, params |-> <<>>, body |-> body]

NameA == Prop("name", Lit(StrV(STR_a)))
Caps(node) == Prop("capabilities", node)

\* the AKM.module(...) calls of a source: each is the argument list of one call
ModuleCalls ==
    { <<>>,
      << <<ObjectExpr(<<NameA>>)>> >>,
      << <<ObjectExpr(<<Prop("name", Lit(StrV(<<>>)))>>)>> >>,
      << <<ObjectExpr(<<Prop("version", Lit(StrV(STR_1_0_0)))>>)>> >>,
      << <<ObjectExpr(<<NameA, Caps(Lit(NumV(Zero)))>>)>> >>,
      << <<ObjectExpr(<<NameA, Caps(Lit(NumV(Num(2))))>>)>> >>,
      << <<ObjectExpr(<<NameA, Caps(Lit(NumV([hi |-> 32767, lo |-> 65535])))>>)>> >>,
      << <<ObjectExpr(<<NameA, Caps(Lit(NumV([hi |-> 32768, lo |-> 0])))>>)>> >>,
      << <<ObjectExpr(<<NameA, Caps(Lit(NumV([hi |-> 65535, lo |-> 65535])))>>)>> >>,
      << <<ObjectExpr(<<NameA, Caps(Binary("|", CapsMember("COMMAND"), CapsMember("DRIVER")))>>)>> >>,
      << <<ObjectExpr(<<NameA, Caps(Binary("|", CapsMember("COMMAND"), CapsMember("LOG")))>>)>> >>,
      << <<ObjectExpr(<<NameA, Caps(CapsMember("DRIVER"))>>)>> >> }

PlainModule == << <<ObjectExpr(<<NameA>>)>> >>

CommandHi == <<ObjectExpr(<<Prop("name", Lit(StrV(STR_hi)))>>), Ident(STR_h)>>
CommandLists == { <<>>, <<CommandHi>> }

DefaultOptions ==
    [debug |-> FALSE, optimize |-> FALSE, verbose |-> FALSE, capabilities |-> [kind |-> "none"],
     dryRun |-> FALSE, emitIR |-> FALSE]

OptionSets ==
    { DefaultOptions,
      [DefaultOptions EXCEPT !.optimize = TRUE],
      [DefaultOptions EXCEPT !.debug = TRUE],
      [DefaultOptions EXCEPT !.capabilities = [kind |-> "hex", n |-> Num(2)]],
      [DefaultOptions EXCEPT !.capabilities = [kind |-> "hex", n |-> Zero]],
      [DefaultOptions EXCEPT !.capabilities = [kind |-> "names", names |-> <<"DRIVER", "PCI">>]],
      [DefaultOptions EXCEPT !.dryRun = TRUE, !.emitIR = TRUE] }

Source(ok, moduleCalls, functions, commandCalls, topCalls) ==
    [syntaxOk |-> ok, errorLoc |-> [line |-> 3, column |-> 7], moduleCalls |-> moduleCalls,
     functions |-> functions, commandCalls |-> commandCalls, topCalls |-> topCalls]

ExitBody == <<ApiCall(STR_info, <<Lit(StrV(STR_b))>>)>>

\* bodies of init vary, everything else is plain
BodyInputs ==
    { <<Source(TRUE, PlainModule,
               <<Func(STR_init, b), Func(STR_h, <<>>), Func(STR_exit, ExitBody)>>, c, <<>>),
        DefaultOptions>> : b \in Bodies, c \in CommandLists }

\* module declarations and options vary
ConfigInputs ==
    { <<Source(TRUE, m, <<Func(STR_h, <<>>), Func(STR_init, b), Func(STR_exit, <<>>)>>, c, <<>>), o>> :
        m \in ModuleCalls, b \in FewBodies, c \in CommandLists, o \in OptionSets }

FunctionLists ==
    { <<>>, <<Func(STR_init, <<>>)>>, <<Func(STR_exit, <<>>)>>, <<Func(STR_h, <<>>)>>,
      <<Func(STR_exit, <<>>), Func(STR_init, <<>>)>> }

\* functions vary, with and without a module declaration, and texts that do not parse
StructureInputs ==
    { <<Source(ok, m, f, <<>>, t), o>> :
        ok \in BOOLEAN, m \in {<<>>, PlainModule}, f \in FunctionLists,
        t \in {<<>>, <<ApiCall(STR_foo, <<>>)>>},
        o \in {DefaultOptions, [DefaultOptions EXCEPT !.dryRun = TRUE]} }

\* descriptors with fields at, below and beyond the width of their header field
LongName == Rep(97, 33)
AccentName == Rep(233, 20)
LongVersion == Rep(49, 17)
EuroAuthor == Rep(8364, 12)
DepX == Lit(StrV(STR_x))

DescriptorFields ==
    { <<Prop("name", Lit(StrV(n)))>> \o v \o a \o d :
        n \in {STR_hi, LongName, AccentName},
        v \in {<<>>, <<Prop("version", Lit(StrV(LongVersion)))>>},
        a \in {<<>>, <<Prop("author", Lit(StrV(EuroAuthor)))>>},
        d \in {<<>>, <<Prop("dependencies", ArrayExpr(<<DepX>>))>>,
               <<Prop("dependencies", ArrayExpr(<<DepX, DepX, DepX, DepX, DepX>>))>>} }

DescriptorInputs ==
    { <<Source(TRUE, << <<ObjectExpr(f)>> >>,
               <<Func(STR_init, <<>>), Func(STR_exit, <<>>)>>, <<>>, <<>>),
        DefaultOptions>> : f \in DescriptorFields }

\* the bodies of the spec's scenarios: `return 2 + 3;` and a call after a return
ReturnSum == <<ReturnArg(Binary("+", Lit(NumV(Num(2))), Lit(NumV(Num(3)))))>>
CallAfterReturn ==
    <<ApiCall(STR_info, <<Lit(StrV(STR_a))>>), ReturnArg(Lit(NumV(Zero))),
      ApiCall(STR_info, <<Lit(StrV(STR_b))>>)>>

\* commands: every field given and the handler no function; a handler that is no identifier
CommandFoo ==
    <<ObjectExpr(<<Prop("name", Lit(StrV(STR_foo))), Prop("syntax", Lit(StrV(STR_x))),
                   Prop("description", Lit(StrV(STR_b))), Prop("category", Lit(StrV(STR_a)))>>),
      Ident(STR_foo)>>
CommandLit == <<ObjectExpr(<<Prop("name", Lit(StrV(STR_x)))>>), Lit(NumV(Zero))>>
SeveralCommands ==
    { <<CommandHi, CommandFoo>>, <<CommandFoo, CommandHi>>, <<CommandHi, CommandHi>>,
      <<CommandFoo>>, <<CommandLit>> }

\* init calls a function declared before it, one declared after it, itself, and a name
\* that is no function of the module
CallsOfInit ==
    <<FuncCall(STR_exit, 0), FuncCall(STR_h, 1), FuncCall(STR_foo, 2), FuncCall(STR_init, 0)>>
CallingFunctions ==
    { <<Func(STR_x, <<>>), Func(STR_exit, <<>>), Func(STR_init, CallsOfInit), Func(STR_h, <<>>)>>,
      <<Func(STR_init, CallsOfInit), Func(STR_h, <<FuncCall(STR_h, 0)>>),
        Func(STR_exit, <<FuncCall(STR_x, 0)>>)>> }

\* bodies that declare a local twice, read a local, read a name that is no local
LocalBodies ==
    { <<VarInit(STR_x, Lit(NumV(Num(5)))), VarInit(STR_x, Lit(NumV(Num(7)))),
        ApiCall(STR_outb, <<Lit(NumV(Num(1))), Ident(STR_x)>>)>>,
      <<VarInit(STR_h, Lit(NumV(Num(1)))), VarInit(STR_x, Lit(NumV(Num(5)))),
        ApiCall(STR_outb, <<Ident(STR_h), Ident(STR_x)>>)>>,
      <<VarInit(STR_x, Lit(StrV(STR_a))), ApiCall(STR_info, <<Lit(StrV(STR_b))>>),
        ReturnArg(Lit(StrV(STR_hi)))>> }

\* function h(x) { AKM.outb(1, x); }: the argument of the call is a parameter
ParamFunctions ==
    { <<Func(STR_init, <<>>),
        [Func(STR_h, <<ApiCall(STR_outb, <<Lit(NumV(Num(1))), Ident(STR_x)>>)>>)
            EXCEPT !.params = <<STR_x>>],
        Func(STR_exit, <<>>)>> }

ScenarioInputs ==
    { <<Source(TRUE, PlainModule, <<Func(STR_init, b), Func(STR_exit, <<>>)>>, <<>>, <<>>), o>> :
        b \in {ReturnSum, CallAfterReturn},
        o \in {DefaultOptions, [DefaultOptions EXCEPT !.optimize = TRUE]} }
    \cup
    { <<Source(TRUE, PlainModule,
               <<Func(STR_init, b), Func(STR_h, <<>>), Func(STR_exit, <<>>)>>, c, <<>>),
        DefaultOptions>> :
        b \in {<<>>, ReturnSum, CallAfterReturn}, c \in SeveralCommands }
    \cup
    { <<Source(TRUE, PlainModule, f, <<>>, <<>>), DefaultOptions>> :
        f \in CallingFunctions \cup ParamFunctions }
    \cup
    { <<Source(TRUE, PlainModule, <<Func(STR_init, b), Func(STR_exit, <<>>)>>, <<>>, <<>>),
        DefaultOptions>> : b \in LocalBodies }

Inputs ==
    BodyInputs \cup ConfigInputs \cup StructureInputs \cup DescriptorInputs \cup ScenarioInputs

----------------------------------------------------------------------------
(* The compiler driven through its API (parse, then compile) or its CLI *)

Idle == [status |-> "none"]

NoCk == /\ ckData = <<>> /\ ckPos = 0 /\ ckAcc = Zero

NoInfo == /\ akmFile = Idle /\ info = Idle

NoOpt == /\ optIr = Idle /\ passes = <<>>

NoGen == gen = Idle

Init ==
    /\ \E in \in Inputs : src = in[1] /\ opts = in[2]
    /\ pc = "start"
    /\ parseRes = Idle /\ compiled = Idle /\ cli = Idle
    /\ instance = Idle /\ history = <<>>
    /\ NoCk /\ NoInfo /\ NoOpt /\ NoGen

Parse ==
    /\ pc = "start"
    /\ parseRes' = parse(src, "module.js")
    /\ pc' = "parsed"
    /\ UNCHANGED <<src, opts, compiled, cli, ckData, ckPos, ckAcc, instance, history, akmFile, info, optIr, passes, gen>>

Compile ==
    /\ pc = "parsed"
    /\ compiled' = compile(parseRes, opts)
    /\ pc' = "done"
    /\ UNCHANGED <<src, opts, parseRes, cli, ckData, ckPos, ckAcc, instance, history, akmFile, info, optIr, passes, gen>>

Main ==
    /\ pc = "start"
    /\ cli' = main(src, opts)
    /\ pc' = "exited"
    /\ UNCHANGED <<src, opts, parseRes, compiled, ckData, ckPos, ckAcc, instance, history, akmFile, info, optIr, passes, gen>>

\* akmcc --info on the artifact the run before has written
Inspect ==
    /\ pc = "exited"
    /\ cli.artifactWritten
    /\ akmFile' = [exists |-> TRUE, data |-> cli.artifact]
    /\ info' = showModuleInfo([exists |-> TRUE, data |-> cli.artifact])
    /\ pc' = "inspected"
    /\ UNCHANGED <<src, opts, parseRes, compiled, cli, ckData, ckPos, ckAcc, instance, history, optIr, passes, gen>>

Next == Parse \/ Compile \/ Main \/ Inspect

Spec == Init /\ [][Next]_vars

----------------------------------------------------------------------------
(* The checksum loop run on its own, one iteration per step *)

CkAlphabet == {0, 1, 128, 255}
CkInputs == {Rep(255, k) : k \in 0..MaxRun} \cup SeqsUpTo(CkAlphabet, MaxCkLen)


InitCk ==
    /\ ckData \in CkInputs
    /\ ckPos = 0
    /\ ckAcc = Zero
    /\ src = Idle /\ opts = Idle /\ pc = "checksum"
    /\ parseRes = Idle /\ compiled = Idle /\ cli = Idle
    /\ instance = Idle /\ history = <<>>
    /\ NoInfo /\ NoOpt /\ NoGen

ChecksumLoop ==
    /\ pc = "checksum"
    /\ ckPos < Len(ckData)
    /\ ckAcc' = ChecksumStep(ckAcc, ckData[ckPos + 1])
    /\ ckPos' = ckPos + 1
    /\ UNCHANGED <<src, opts, pc, parseRes, compiled, cli, ckData, instance, history, akmFile, info, optIr, passes, gen>>

ChecksumReturn ==
    /\ pc = "checksum"
    /\ ckPos = Len(ckData)
    /\ pc' = "returned"
    /\ UNCHANGED <<src, opts, parseRes, compiled, cli, ckData, ckPos, ckAcc, instance, history, akmFile, info, optIr, passes, gen>>

NextCk == ChecksumLoop \/ ChecksumReturn

SpecCk == InitCk /\ [][NextCk]_vars

----------------------------------------------------------------------------
(* C4 reference: the accumulator of the documented rolling checksum, over  *)
(* 32-element bit vectors (most significant bit first).                     *)

RECURSIVE BitsOf(_, _)
BitsOf(n, w) == IF w = 0 THEN <<>> ELSE Append(BitsOf(n \div 2, w - 1), n % 2)

RECURSIVE ValOf(_)
ValOf(bits) ==
    IF bits = <<>> THEN 0 ELSE 2 * ValOf(SubSeq(bits, 1, Len(bits) - 1)) + bits[Len(bits)]

\* (acc + b) mod 2^32 as a bit vector: the 33rd (carry) bit is dropped
AddMod32(acc, b) ==
    LET l == acc.lo + b
        h == acc.hi + l \div 65536
    IN  BitsOf(h % 65536, 16) \o BitsOf(l % 65536, 16)

RotateLeft32(bits) == Tail(bits) \o <<Head(bits)>>

RefStep(acc, b) ==
    LET r == RotateLeft32(AddMod32(acc, b))
    IN  [hi |-> ValOf(SubSeq(r, 1, 16)), lo |-> ValOf(SubSeq(r, 17, 32))]

RECURSIVE RefChecksum(_)
RefChecksum(data) ==
    IF data = <<>> THEN Zero
    ELSE CHOOSE r \in {RefStep(acc, data[Len(data)]) :
                         acc \in {RefChecksum(SubSeq(data, 1, Len(data) - 1))}} : TRUE

\* C4: after every iteration the accumulator is the documented rolling
\* checksum of the bytes consumed so far and is an unsigned 32-bit value;
\* in particular the returned value is the checksum of the whole buffer.
C4_ChecksumIsRotatingSum ==
    pc \in {"checksum", "returned"} =>
        /\ IsU32(ckAcc)
        /\ ckAcc = RefChecksum(SubSeq(ckData, 1, ckPos))
        /\ (pc = "returned" => ckAcc = calculateChecksum(ckData))

\* an iteration in which acc + b exceeded 2^32 - 1 has been executed
C4_Witness ==
    /\ pc = "returned"
    /\ \E k \in 1..Len(ckData) :
          JsAddByte(calculateChecksum(SubSeq(ckData, 1, k - 1)), ckData[k]).hi > 65535

----------------------------------------------------------------------------
(* Reading an artifact back *)

\* the artifacts of the current state: compile()'s return value, the file the CLI wrote
Artifacts ==
    (IF pc = "done" /\ compiled.status = "ok" THEN {compiled.binary} ELSE {})
    \cup (IF pc = "exited" /\ cli.artifactWritten THEN {cli.artifact} ELSE {})

\* a little-endian u32 header field below 2^31 as an integer
HeaderInt(b, off) == ReadU32(b, off).hi * 65536 + ReadU32(b, off).lo

\* every bit of `bits` is set in `mask` (both taken as 32-bit patterns)
HasBits(mask, bits) == JsAnd(mask, bits) = ToInt32(bits)

\* the value fields of the 12-byte symbol records of an artifact
SymbolValues(b) ==
    {HeaderInt(b, HeaderInt(b, 180) + 12 * k + 4) : k \in 0..((HeaderInt(b, 184) \div 12) - 1)}

\* what the source declares, as the parser reads it
SourceCalls == extractAPICalls(src)
SourceCommands == extractCommands(src)
SourceConfig == extractModuleConfig(src)
SourceHas(name) == \E i \in 1..Len(src.functions) : src.functions[i].name = name
WellFormed ==
    /\ src.syntaxOk /\ src.moduleCalls # <<>> /\ Truthy(SourceConfig.name)
    /\ SourceHas(STR_init) /\ SourceHas(STR_exit)

----------------------------------------------------------------------------
(* C1: for every successful compilation the artifact's length equals the    *)
(* header's total_size and 512 + code_size + data_size + symtab_size +      *)
(* strtab_size, and the section offsets are the running totals: code at     *)
(* 512, data after the code, the symbol table after the data, the string    *)
(* table after the symbol table.                                            *)
C1_LayoutIsRunningTotal ==
    \A b \in Artifacts :
        /\ Len(b) = HeaderInt(b, 12)
        /\ Len(b) = 512 + HeaderInt(b, 120) + HeaderInt(b, 128) + HeaderInt(b, 184)
                        + HeaderInt(b, 192)
        /\ HeaderInt(b, 116) = 512
        /\ HeaderInt(b, 124) = HeaderInt(b, 116) + HeaderInt(b, 120)
        /\ HeaderInt(b, 180) = HeaderInt(b, 124) + HeaderInt(b, 128)
        /\ HeaderInt(b, 188) = HeaderInt(b, 180) + HeaderInt(b, 184)
        /\ HeaderInt(b, 116) <= HeaderInt(b, 124) /\ HeaderInt(b, 124) <= HeaderInt(b, 180)
        /\ HeaderInt(b, 180) <= HeaderInt(b, 188)

\* an artifact with a command stub in its data section and three symbols
C1_Witness ==
    /\ pc = "done" /\ compiled.status = "ok"
    /\ src.commandCalls # <<>>
    /\ HeaderInt(compiled.binary, 120) > 2
    /\ HeaderInt(compiled.binary, 128) > 0
    /\ HeaderInt(compiled.binary, 184) = 36
    /\ HeaderInt(compiled.binary, 192) > 0

----------------------------------------------------------------------------
(* C2, as claimed: init_offset, cleanup_offset and the value of every       *)
(* function record of the symbol table lie in                               *)
(* [code_offset, code_offset + code_size).                                  *)
C2_OffsetsInFileRange ==
    \A b \in Artifacts :
        LET lo == HeaderInt(b, 116)
            hi == HeaderInt(b, 116) + HeaderInt(b, 120)
        IN  /\ lo <= HeaderInt(b, 164) /\ HeaderInt(b, 164) < hi
            /\ lo <= HeaderInt(b, 168) /\ HeaderInt(b, 168) < hi
            /\ \A v \in SymbolValues(b) : lo <= v /\ v < hi

(* C2, amended: init_offset, cleanup_offset and the value of every function *)
(* record are offsets from the start of the code section and lie in         *)
(* [0, code_size); each is the position of the NOP that opens a function.   *)
C2_OffsetsAreCodeRelative ==
    \A b \in Artifacts :
        \A v \in {HeaderInt(b, 164), HeaderInt(b, 168)} \cup SymbolValues(b) :
            /\ 0 <= v /\ v < HeaderInt(b, 120)
            /\ b[HeaderInt(b, 116) + v + 1] = OPCODES.NOP

\* three functions, the last of them exit, at three different offsets
C2_Witness ==
    /\ pc = "done" /\ compiled.status = "ok"
    /\ Cardinality(SymbolValues(compiled.binary)) = 3
    /\ HeaderInt(compiled.binary, 164) = 0
    /\ HeaderInt(compiled.binary, 168) > HeaderInt(compiled.binary, 164)

----------------------------------------------------------------------------
(* C3: in every artifact the u32 at 352 is the rolling checksum of          *)
(* code, data, symtab and strtab concatenated, and the u32 at 348 is the    *)
(* rolling checksum of the final header with bytes [348..352) removed.      *)
C3_ChecksumsCoverFinalBytes ==
    \A b \in Artifacts :
        /\ ReadU32(b, 352) = calculateChecksum(SubSeq(b, 513, Len(b)))
        /\ ReadU32(b, 348) = calculateChecksum(SubSeq(b, 1, 348) \o SubSeq(b, 353, 512))

\* a written file whose two checksums are both non-zero and differ
C3_Witness ==
    /\ pc = "exited" /\ cli.artifactWritten
    /\ ReadU32(cli.artifact, 352) # Zero
    /\ ReadU32(cli.artifact, 348) # Zero
    /\ ReadU32(cli.artifact, 348) # ReadU32(cli.artifact, 352)

----------------------------------------------------------------------------
(* C5: whatever the compiler options, when the input calls AKM.M with M in  *)
(* the API table under capability C, the header's capabilities mask has C   *)
(* and LOG set, and COMMAND too when the input registers a command.         *)
C5_MaskCoversCalls ==
    \A b \in Artifacts :
        /\ \A i \in 1..Len(SourceCalls) :
              SourceCalls[i].method \in ApiNames =>
                 /\ HasBits(ReadU32(b, 108), ApiEntry(SourceCalls[i].method).capability)
                 /\ HasBits(ReadU32(b, 108), CAPABILITIES.LOG)
        /\ (Len(SourceCommands) > 0 /\ \E i \in 1..Len(SourceCalls) : SourceCalls[i].method \in ApiNames)
              => HasBits(ReadU32(b, 108), CAPABILITIES.COMMAND)

----------------------------------------------------------------------------
(* C6: for every numeric capabilities value d in [0, 2^32) declared in      *)
(* AKM.module, compilation succeeds and the header capabilities field,      *)
(* read unsigned, is d OR the inferred bits.                                *)
DeclaredCaps == {Zero, Num(2), [hi |-> 32767, lo |-> 65535], [hi |-> 32768, lo |-> 0],
                 [hi |-> 65535, lo |-> 65535]}

C6_DeclaredBitsKept ==
    \A d \in DeclaredCaps :
        ( /\ pc = "done" /\ opts = DefaultOptions /\ WellFormed
          /\ src.moduleCalls = << <<ObjectExpr(<<NameA, Caps(Lit(NumV(d)))>>)>> >> )
        => /\ compiled.status = "ok"
           /\ ReadU32(compiled.binary, 108)
                = ToUint32(JsOr(d, computeRequiredCapabilities(SourceCalls, SourceCommands)))

----------------------------------------------------------------------------
(* C7: a bitwise OR of AKM.CAPS.<NAME> members in the capabilities field of *)
(* AKM.module evaluates to the OR of the named bits, so every named bit is  *)
(* in the module's capabilities mask after parsing.                         *)
C7_OrOfCapsNamesEvaluated ==
    \A x, y \in DOMAIN CAPABILITIES :
        ( /\ pc = "parsed" /\ src.syntaxOk
          /\ src.moduleCalls
               = << <<ObjectExpr(<<NameA, Caps(Binary("|", CapsMember(x), CapsMember(y)))>>)>> >> )
        => /\ HasBits(parseRes.moduleConfig.capabilities.n, CAPABILITIES[x])
           /\ HasBits(parseRes.moduleConfig.capabilities.n, CAPABILITIES[y])

----------------------------------------------------------------------------
(* C8: compile() fails and returns no binary when the source has no         *)
(* AKM.module call, no or an empty module name, no init function or no exit *)
(* function; only the validation stage has run, and the CLI writes no file. *)
StructuralError ==
    \/ src.moduleCalls = <<>>
    \/ ~Truthy(SourceConfig.name)
    \/ SourceConfig.name = StrV(<<>>)
    \/ ~SourceHas(STR_init)
    \/ ~SourceHas(STR_exit)

C8_StructuralErrorsStopCompile ==
    StructuralError =>
        /\ pc = "done" => /\ compiled.status = "error" /\ compiled.error # ""
                          /\ compiled.binary = <<>>
                          /\ compiled.stages = <<"validate">>
        /\ pc = "exited" => ~cli.artifactWritten /\ cli.artifact = <<>>

\* a text that parses, declares a named module and has init but no exit
C8_Witness ==
    /\ pc = "done" /\ src.syntaxOk /\ src.moduleCalls # <<>> /\ Truthy(SourceConfig.name)
    /\ SourceHas(STR_init) /\ ~SourceHas(STR_exit)
    /\ compiled.status = "error"

----------------------------------------------------------------------------
(* C9: when the text does not parse, parse() returns a non-empty error list *)
(* whose entries carry the file, the line and column where the parser       *)
(* stopped and a message; the CLI exits with 1 and writes nothing, and a    *)
(* direct compile() of that result fails without a binary.                  *)
C9_ParseFailureAborts ==
    ~src.syntaxOk =>
        /\ pc = "parsed" =>
              /\ Len(parseRes.errors) > 0
              /\ \A i \in 1..Len(parseRes.errors) :
                    /\ parseRes.errors[i].file = "module.js"
                    /\ parseRes.errors[i].line = src.errorLoc.line
                    /\ parseRes.errors[i].column = src.errorLoc.column
                    /\ parseRes.errors[i].message # ""
        /\ pc = "done" => compiled.status = "error" /\ compiled.binary = <<>>
        /\ pc = "exited" =>
              /\ cli.exitCode = 1 /\ ~cli.artifactWritten /\ cli.artifact = <<>>
              /\ Len(cli.stderr) > 0
              /\ \A i \in 1..Len(cli.stderr) :
                    /\ cli.stderr[i].line = src.errorLoc.line
                    /\ cli.stderr[i].column = src.errorLoc.column

\* the CLI has run on a text that does not parse although it would otherwise compile
C9_Witness ==
    /\ pc = "exited" /\ ~src.syntaxOk /\ cli.exitCode = 1
    /\ src.moduleCalls # <<>> /\ SourceHas(STR_init) /\ SourceHas(STR_exit)
    /\ ~opts.dryRun

----------------------------------------------------------------------------
(* C10: every call AKM.m(...) whose method m is not in the API table adds   *)
(* a warning naming m, and parsing reports no error for it.                 *)
C10_UnknownMethodWarns ==
    (pc = "parsed" /\ src.syntaxOk) =>
        /\ parseRes.errors = <<>>
        /\ \A i \in 1..Len(SourceCalls) :
              SourceCalls[i].method \notin ApiNames =>
                 \E w \in 1..Len(parseRes.warnings) :
                    parseRes.warnings[w].method = SourceCalls[i].method

----------------------------------------------------------------------------
(* One AKMCompiler object used for several compilations in a row *)

ReuseSources ==
    { Source(TRUE, PlainModule,
             <<Func(STR_init, <<ApiCall(STR_info, <<Lit(StrV(STR_a))>>), FuncCall(STR_h, 0)>>),
               Func(STR_h, <<>>), Func(STR_exit, ExitBody)>>, <<CommandHi>>, <<>>),
      Source(TRUE, PlainModule,
             <<Func(STR_init, <<VarInit(STR_x, Lit(NumV(Num(5))))>>), Func(STR_exit, <<>>)>>,
             <<>>, <<>>),
      Source(TRUE, PlainModule,
             <<Func(STR_init, <<>>), Func(STR_exit, <<>>)>>, <<>>, <<ApiCall(STR_foo, <<>>)>>),
      Source(TRUE, PlainModule, <<Func(STR_init, <<>>)>>, <<>>, <<>>),
      Source(FALSE, PlainModule, <<Func(STR_init, <<>>), Func(STR_exit, <<>>)>>, <<>>, <<>>) }

InitReuse ==
    /\ opts \in {DefaultOptions, [DefaultOptions EXCEPT !.optimize = TRUE]}
    /\ src = Idle /\ pc = "ready"
    /\ parseRes = Idle /\ compiled = Idle /\ cli = Idle
    /\ instance = [parser |-> NewParser, codegen |-> NewCodeGen]
    /\ history = <<>>
    /\ NoCk /\ NoInfo /\ NoOpt /\ NoGen

\* compiler.parse(source) on the shared object
ParseOn ==
    /\ pc = "ready"
    /\ Len(history) < MaxCompilations
    /\ \E s \in ReuseSources :
          /\ src' = s
          /\ parseRes' = parseOn(instance.parser, s, "module.js").result
          /\ instance' = [instance EXCEPT !.parser = parseOn(instance.parser, s, "module.js").parser]
    /\ pc' = "parsed"
    /\ UNCHANGED <<opts, compiled, cli, ckData, ckPos, ckAcc, history, akmFile, info, optIr, passes, gen>>

\* compiler.compile(parseResult) on the shared object
CompileOn ==
    /\ pc = "parsed"
    /\ compiled' = compileOn(instance.codegen, parseRes, opts).result
    /\ instance' = [instance EXCEPT !.codegen = compileOn(instance.codegen, parseRes, opts).codegen]
    /\ history' = Append(history, [source |-> src, errors |-> parseRes.errors,
                                   warnings |-> parseRes.warnings,
                                   result |-> compileOn(instance.codegen, parseRes, opts).result])
    /\ pc' = "ready"
    /\ UNCHANGED <<src, opts, parseRes, cli, ckData, ckPos, ckAcc, akmFile, info, optIr, passes, gen>>

NextReuse == ParseOn \/ CompileOn

SpecReuse == InitReuse /\ [][NextReuse]_vars

----------------------------------------------------------------------------
(* C11: compilations of the same source on one AKMCompiler object give the  *)
(* same outcome (artifact bytes, errors, warnings), whatever was compiled   *)
(* on the object before or in between.                                      *)
C11_ReuseIsDeterministic ==
    \A i, j \in 1..Len(history) :
        history[i].source = history[j].source => history[i] = history[j]

\* a source compiled, a different one compiled next, then the first one again,
\* all three successfully and on buffers the earlier compilations had filled
C11_Witness ==
    /\ Len(history) = 3
    /\ history[1].source = history[3].source
    /\ history[2].source # history[1].source
    /\ \A i \in 1..3 : history[i].result.status = "ok" /\ Len(history[i].result.binary) > 512
    /\ history[2].result.binary # history[1].result.binary
    /\ instance.codegen.code # <<>> /\ instance.codegen.fixups # <<>>

----------------------------------------------------------------------------
(* C12: the inspector reads back, from every artifact the writer produced,  *)
(* the name, version, author, capabilities, dependency count and the        *)
(* offsets and sizes of the code, data, symbol and string sections that     *)
(* the writer was given or computed (a string as the writer cut it to the   *)
(* width of its field).                                                     *)

\* str.slice(0, maxLen - 1) of a descriptor string, '' when it is absent
FieldSlice(value, maxLen) ==
    IF Truthy(value) THEN SubSeq(value.s, 1, Min(Len(value.s), maxLen - 1)) ELSE <<>>

LayoutOf(generated) ==
    SectionLayout(generated, buildSymbolTable(generated), buildStringTable(generated.strings))

ReadsBack(report, moduleInfo, layout) ==
    /\ report.name = FieldSlice(moduleInfo.name, 32)
    /\ report.version = FieldSlice(moduleInfo.version, 16)
    /\ report.author = FieldSlice(moduleInfo.author, 32)
    /\ report.capabilities = moduleInfo.capabilities.n
    /\ report.depCount = Min(Len(DependencyList(moduleInfo.dependencies)), 4)
    /\ report.codeOffset = Num(layout.codeOffset) /\ report.codeSize = Num(layout.codeSize)
    /\ report.dataOffset = Num(layout.dataOffset) /\ report.dataSize = Num(layout.dataSize)
    /\ report.symtabOffset = Num(layout.symtabOffset)
    /\ report.symtabSize = Num(layout.symtabSize)
    /\ report.strtabOffset = Num(layout.strtabOffset)
    /\ report.strtabSize = Num(layout.strtabSize)

ReadsBackParsed(report, parseResult) ==
    ReadsBack(report, extractModuleInfo(parseResult, opts), LayoutOf(generate(parseResult)))

C12_InspectorReadsBack ==
    pc = "inspected" => info.exitCode = 0 /\ ReadsBackParsed(info.report, parse(src, "module.js"))

----------------------------------------------------------------------------
(* akmcc --info run on files of any content *)

\* a byte with the bits of mask inverted
XorByte(b, mask) == BitOrN(b, mask) - BitAndN(b, mask)

FlipByte(data, k, mask) == [data EXCEPT ![k + 1] = XorByte(@, mask)]

ValidArtifacts ==
    { main(Source(TRUE, PlainModule,
                  <<Func(STR_init, b), Func(STR_h, <<>>), Func(STR_exit, <<>>)>>, c, <<>>),
           DefaultOptions).artifact :
        b \in {<<>>, <<ApiCall(STR_info, <<Lit(StrV(STR_a))>>)>>}, c \in {<<CommandHi>>} }

FlipMasks == {1, 2, 4, 8, 16, 32, 64, 128, 255}

InfoData ==
    ValidArtifacts
    \cup {SubSeq(a, 1, n) : a \in ValidArtifacts, n \in {0, 1, 3, 4, 8, 511, 512}}
    \cup {FlipByte(a, k, m) : a \in ValidArtifacts, k \in {0, 1, 2, 3, 4, 108}, m \in FlipMasks}
    \cup {Put(Alloc(n), 0, LE32(InspectorMagic)) : n \in {4, 511, 512, 513}}
    \cup {Alloc(n) : n \in {0, 511, 512, 600}}

InfoFiles == {[exists |-> FALSE, data |-> <<>>]} \cup {[exists |-> TRUE, data |-> d] : d \in InfoData}

InitInfo ==
    /\ akmFile \in InfoFiles
    /\ info = Idle
    /\ src = Idle /\ opts = Idle /\ pc = "start"
    /\ parseRes = Idle /\ compiled = Idle /\ cli = Idle
    /\ instance = Idle /\ history = <<>>
    /\ NoCk /\ NoOpt /\ NoGen

\* akmcc -i <file>
MainInfo ==
    /\ pc = "start"
    /\ info' = showModuleInfo(akmFile)
    /\ pc' = "exited"
    /\ UNCHANGED <<src, opts, parseRes, compiled, cli, ckData, ckPos, ckAcc, instance, history, akmFile, optIr, passes, gen>>

NextInfo == MainInfo

SpecInfo == InitInfo /\ [][NextInfo]_vars

\* the number a string of upper-case hexadecimal digits (at most eight) writes
HexDigitValue(c) == IF c >= 65 THEN c - 55 ELSE c - 48

RECURSIVE HexValue(_)
HexValue(str) ==
    IF str = <<>> THEN 0 ELSE 16 * HexValue(SubSeq(str, 1, Len(str) - 1)) + HexDigitValue(str[Len(str)])

HexNumber(str) ==
    IF Len(str) <= 4 THEN [hi |-> 0, lo |-> HexValue(str)]
    ELSE [hi |-> HexValue(SubSeq(str, 1, Len(str) - 4)),
          lo |-> HexValue(SubSeq(str, Len(str) - 3, Len(str)))]

\* the first four bytes of the file are "AKM2"
MagicBytesOk(data) == data[1] = 65 /\ data[2] = 75 /\ data[3] = 77 /\ data[4] = 50

----------------------------------------------------------------------------
(* C13: the inspector exits non-zero and prints no report when the file is  *)
(* shorter than 512 bytes or does not start with the magic 0x324D4B41; for  *)
(* a wrong magic the error names the magic found, in hexadecimal; a file    *)
(* of at least 512 bytes with the magic is reported and the exit code is 0. *)
C13_InspectorRejectsBadInput ==
    (pc = "exited" /\ akmFile # Idle /\ akmFile.exists) =>
        IF Len(akmFile.data) < 512
        THEN info.exitCode # 0 /\ info.report = NoReport
        ELSE IF ~MagicBytesOk(akmFile.data)
        THEN /\ info.exitCode # 0 /\ info.report = NoReport
             /\ info.stderr.kind = "magic"
             /\ ToUint32(HexNumber(info.stderr.got))
                  = [hi |-> akmFile.data[3] + 256 * akmFile.data[4],
                     lo |-> akmFile.data[1] + 256 * akmFile.data[2]]
        ELSE info.exitCode = 0 /\ info.report # NoReport /\ info.report.size = Len(akmFile.data)

\* a compiled artifact whose byte 0 was flipped has been rejected
C13_Witness ==
    /\ pc = "exited" /\ akmFile # Idle /\ akmFile.exists
    /\ \E a \in ValidArtifacts : akmFile.data = FlipByte(a, 0, 255)
    /\ info.exitCode = 1 /\ info.stderr.kind = "magic"

----------------------------------------------------------------------------
(* The passes of the optimizer run on the instruction list of a function *)

I32Max == [hi |-> 32767, lo |-> 65535]
I32Min == [hi |-> -32768, lo |-> 0]

FoldValues ==
    {Num(0), Num(1), Num(3), Num(-7), Num(33), Num(65536), Num(134217729), I32Max, I32Min}

FoldOps ==
    {OPCODES.ADD, OPCODES.SUB, OPCODES.MUL, OPCODES.DIV, OPCODES.MOD, OPCODES.AND, OPCODES.OR,
     OPCODES.XOR, OPCODES.SHL, OPCODES.SHR}

Push(n) == InsValue(OPCODES.PUSH, NumV(n))

\* PUSH a; PUSH b; OP; RET
FoldLists == {<<Push(a), Push(b), Ins(op), Ins(OPCODES.RET)>> : a, b \in FoldValues, op \in FoldOps}

OptAlphabet ==
    {Push(Zero), Push(Num(1)), Ins(OPCODES.POP), Ins(OPCODES.DUP), Ins(OPCODES.NOP),
     Ins(OPCODES.ADD), Ins(OPCODES.MUL), Ins(OPCODES.RET), Ins(OPCODES.HALT),
     [Ins(OPCODES.JMP) EXCEPT !.target = 2]}

OptLists ==
    FoldLists \cup SeqsUpTo(OptAlphabet, MaxInstrs)
    \cup SeqsUpTo({Ins(OPCODES.NEG), Ins(OPCODES.NOT)}, MaxNest)

InitOpt ==
    /\ \E l \in OptLists :
          optIr = [functions |-> <<[newIrFunction(STR_init, <<>>) EXCEPT !.instructions = l]>>,
                   strings |-> <<StrV(STR_init)>>]
    /\ passes = <<>>
    /\ src = Idle /\ opts = Idle /\ pc = "optimizing"
    /\ parseRes = Idle /\ compiled = Idle /\ cli = Idle
    /\ instance = Idle /\ history = <<>>
    /\ NoCk /\ NoInfo /\ NoGen

Ran(pass) == Append(passes, [pass |-> pass, before |-> optIr.functions[1].instructions])

RunDeadCodeElimination ==
    /\ Len(passes) < MaxPasses
    /\ optIr' = deadCodeElimination(optIr)
    /\ passes' = Ran("deadCodeElimination")
    /\ UNCHANGED <<src, opts, pc, parseRes, compiled, cli, ckData, ckPos, ckAcc, instance, history, akmFile, info, gen>>

RunConstantFolding ==
    /\ Len(passes) < MaxPasses
    /\ optIr' = constantFolding(optIr)
    /\ passes' = Ran("constantFolding")
    /\ UNCHANGED <<src, opts, pc, parseRes, compiled, cli, ckData, ckPos, ckAcc, instance, history, akmFile, info, gen>>

RunPeepholeOptimization ==
    /\ Len(passes) < MaxPasses
    /\ optIr' = peepholeOptimization(optIr)
    /\ passes' = Ran("peepholeOptimization")
    /\ UNCHANGED <<src, opts, pc, parseRes, compiled, cli, ckData, ckPos, ckAcc, instance, history, akmFile, info, gen>>

NextOpt == RunDeadCodeElimination \/ RunConstantFolding \/ RunPeepholeOptimization

SpecOpt == InitOpt /\ [][NextOpt]_vars

\* the instruction list after the passes run so far
Optimized == optIr.functions[1].instructions

----------------------------------------------------------------------------
(* C14 reference: the ten operators on 32-bit words.  A word is the record  *)
(* [hi, lo] of its two unsigned halves; the bitwise operators and shifts    *)
(* work on 32-element bit vectors (most significant bit first).             *)

Bits32(x) == BitsOf(x.hi % 65536, 16) \o BitsOf(x.lo, 16)
WordOf(bits) == [hi |-> ValOf(SubSeq(bits, 1, 16)), lo |-> ValOf(SubSeq(bits, 17, 32))]

\* the value of a signed 32-bit operand
IntOf(x) == x.hi * 65536 + x.lo
MinInt == IntOf(I32Min)
MaxInt == IntOf(I32Max)

\* floor(a / b) as a word
RefDiv(a, b) ==
    IF b > 0 THEN ToUint32(Num(a \div b))
    ELSE IF b = MinInt THEN ToUint32(Num(IF a = MinInt THEN 1 ELSE IF a > 0 THEN -1 ELSE 0))
    ELSE IF a = MinInt
    THEN IF b = -1 THEN [hi |-> 32768, lo |-> 0]
         ELSE ToUint32(Num((MaxInt \div (0 - b)) + (IF MaxInt % (0 - b) = (0 - b) - 1 THEN 1 ELSE 0)))
    ELSE ToUint32(Num((0 - a) \div (0 - b)))

\* the remainder of the division that truncates, as a word
RefMod(a, b) ==
    LET m == IF b < 0 THEN 0 - b ELSE b
    IN  IF b = MinInt THEN ToUint32(Num(IF a = MinInt THEN 0 ELSE a))
        ELSE IF a = MinInt THEN ToUint32(Num(0 - (((MaxInt % m) + 1) % m)))
        ELSE IF a >= 0 THEN ToUint32(Num(a % m))
        ELSE ToUint32(Num(0 - ((0 - a) % m)))

Ref32(op, a, b) ==
    LET A == Bits32(a)
        B == Bits32(b)
        k == b.lo % 32
        P == MulBytes(LE32(a), LE32(b), 1, 0)
    IN  CASE op = OPCODES.ADD ->
                [hi |-> (a.hi + b.hi + ((a.lo + b.lo) \div 65536)) % 65536, lo |-> (a.lo + b.lo) % 65536]
          [] op = OPCODES.SUB ->
                [hi |-> (a.hi - b.hi + ((a.lo - b.lo) \div 65536)) % 65536, lo |-> (a.lo - b.lo) % 65536]
          [] op = OPCODES.MUL -> [hi |-> P[3] + 256 * P[4], lo |-> P[1] + 256 * P[2]]
          [] op = OPCODES.DIV -> RefDiv(IntOf(a), IntOf(b))
          [] op = OPCODES.MOD -> RefMod(IntOf(a), IntOf(b))
          [] op = OPCODES.AND -> WordOf([i \in 1..32 |-> A[i] * B[i]])
          [] op = OPCODES.OR -> WordOf([i \in 1..32 |-> IF A[i] + B[i] > 0 THEN 1 ELSE 0])
          [] op = OPCODES.XOR -> WordOf([i \in 1..32 |-> (A[i] + B[i]) % 2])
          [] op = OPCODES.SHL -> WordOf([i \in 1..32 |-> IF i + k <= 32 THEN A[i + k] ELSE 0])
          [] op = OPCODES.SHR -> WordOf([i \in 1..32 |-> IF i - k >= 1 THEN A[i - k] ELSE 0])

\* what the law says of the list `after` folded from PUSH a; PUSH b; OP; RET
FoldLaw(before, after) ==
    IF before[3].op \in {OPCODES.DIV, OPCODES.MOD} /\ before[2].value = NumV(Zero)
    THEN after = before
    ELSE /\ Len(after) = 2
         /\ after[1].op = OPCODES.PUSH
         /\ after[1].value.t = "number"
         /\ ToUint32(after[1].value.n) = Ref32(before[3].op, before[1].value.n, before[2].value.n)
         /\ after[2] = before[4]

(* C14: constant folding replaces PUSH a; PUSH b; OP by one PUSH whose      *)
(* value is OP on (a, b) in 32-bit arithmetic (equal as 32-bit words),      *)
(* and leaves the three instructions alone when OP is DIV or MOD and b = 0. *)
C14_FoldingIs32Bit ==
    (Len(passes) = 1 /\ passes[1].pass = "constantFolding" /\ passes[1].before \in FoldLists) =>
        FoldLaw(passes[1].before, Optimized)

----------------------------------------------------------------------------
(* C15: peephole optimization is idempotent after two applications: a third *)
(* application changes nothing.                                             *)
C15_ThirdPeepholeChangesNothing ==
    (Len(passes) = 3 /\ \A k \in 1..3 : passes[k].pass = "peepholeOptimization") =>
        Optimized = passes[3].before

(* C16: dead-code elimination on a list that ends in RET gives a list that  *)
(* ends in RET.                                                             *)
C16_DceKeepsFinalRet ==
    (/\ Len(passes) >= 1
     /\ passes[Len(passes)].pass = "deadCodeElimination"
     /\ Len(passes[Len(passes)].before) >= 1
     /\ passes[Len(passes)].before[Len(passes[Len(passes)].before)].op = OPCODES.RET) =>
        /\ Len(Optimized) >= 1
        /\ Optimized[Len(Optimized)].op = OPCODES.RET

----------------------------------------------------------------------------
(* The optimizer in the pipeline *)

\* the code section of an artifact
CodeOf(b) == SubSeq(b, HeaderInt(b, 116) + 1, HeaderInt(b, 116) + HeaderInt(b, 120))

\* the body the source gives init, and the opcodes the parser lowers it to
InitIs(body) ==
    /\ Len(src.functions) >= 1
    /\ src.functions[1].name = STR_init
    /\ src.functions[1].body = body
LoweredOps(k) ==
    [i \in 1..Len(parseRes.ir.functions[k].instructions) |->
        parseRes.ir.functions[k].instructions[i].op]
Count(ops, op) == Cardinality({i \in 1..Len(ops) : ops[i] = op})

(* C17: a module whose init is `return 2 + 3;` compiles with optimization   *)
(* to the code NOP, PUSH 5, RET for init; without optimization its init has *)
(* two PUSHes and an ADD.                                                   *)
C17_ConstantFoldScenario ==
    (pc = "done" /\ InitIs(ReturnSum)) =>
        /\ compiled.status = "ok"
        /\ IF opts.optimize
           THEN SubSeq(CodeOf(compiled.binary), 1, 7)
                    = <<OPCODES.NOP, OPCODES.PUSH, 5, 0, 0, 0, OPCODES.RET>>
           ELSE /\ Count(LoweredOps(1), OPCODES.PUSH) = 2
                /\ Count(LoweredOps(1), OPCODES.ADD) = 1

(* C18: with optimization on, every valid module compiles, and its code is  *)
(* the code of the IR without the instructions that follow a RET, JMP or    *)
(* HALT and are no jump target; the string table keeps every string.        *)
C18_OptimizedCompileDropsDeadCode ==
    (pc = "done" /\ WellFormed /\ opts.optimize) =>
        /\ compiled.status = "ok"
        /\ CodeOf(compiled.binary)
               = generate([parseRes EXCEPT !.ir = deadCodeElimination(@)]).code
        /\ HeaderInt(compiled.binary, 192)
               = HeaderInt(compile(parseRes, [opts EXCEPT !.optimize = FALSE]).binary, 192)

----------------------------------------------------------------------------
(* Command injection *)

Parsed == pc \in {"parsed", "done"} /\ parseRes.parsed

\* the instruction list of init in the IR (the empty list without an init)
InitInstructions ==
    LET F == parseRes.ir.functions
    IN  IF \E k \in 1..Len(F) : F[k].name = STR_init
        THEN F[CHOOSE k \in 1..Len(F) : F[k].name = STR_init].instructions
        ELSE <<>>

Injected == Parsed /\ Len(parseRes.commands) > 0 /\ InitInstructions # <<>>

\* seven instructions from index `at` + 1 on have the shape of a registration block
BlockShape(list, at) ==
    /\ at >= 0 /\ at + 7 <= Len(list)
    /\ \A k \in 1..4 : list[at + k].op = OPCODES.PUSH_STR
    /\ list[at + 5].op = OPCODES.PUSH /\ list[at + 5].value = NumV(Zero)
    /\ list[at + 6].op = OPCODES.CALL_API
    /\ list[at + 6].method = STR_registerCommand /\ list[at + 6].argc = 5
    /\ list[at + 7].op = OPCODES.POP

\* ... and they are the registration block of cmd
IsBlock(list, at, cmd) ==
    /\ BlockShape(list, at)
    /\ list[at + 1].value = cmd.name
    /\ list[at + 2].value = cmd.syntax
    /\ list[at + 3].value = cmd.description
    /\ list[at + 4].value = cmd.category

BlockCount(list) == Cardinality({at \in 0..Len(list) : BlockShape(list, at)})

\* the 0-based index of the first RET of a list that has one
FirstRet(list) == (CHOOSE i \in 1..Len(list) :
                      /\ list[i].op = OPCODES.RET
                      /\ \A j \in 1..(i - 1) : list[j].op # OPCODES.RET) - 1

\* the blocks of the commands, in some order, are the 7 * n instructions before index `ret`
BlocksBefore(list, ret, commands) ==
    LET n == Len(commands)
    IN  /\ ret >= 7 * n
        /\ \A k \in 1..n : \E c \in 1..n : IsBlock(list, ret - 7 * k, commands[c])
        /\ \A c \in 1..n : \E k \in 1..n : IsBlock(list, ret - 7 * k, commands[c])

----------------------------------------------------------------------------
(* Command stubs *)

\* the data section and the string-table section of an artifact
DataOf(b) == SubSeq(b, HeaderInt(b, 124) + 1, HeaderInt(b, 124) + HeaderInt(b, 128))
StrtabOf(b) == SubSeq(b, HeaderInt(b, 188) + 1, HeaderInt(b, 188) + HeaderInt(b, 192))

\* the c-th of the n 20-byte records that end the section D
StubOf(D, n, c) == SubSeq(D, Len(D) - 20 * (n - c + 1) + 1, Len(D) - 20 * (n - c))

\* the NUL-terminated bytes of str stand at offset off of D
StringAt(D, off, str) ==
    /\ off + Len(CString(str)) <= Len(D)
    /\ SubSeq(D, off + 1, off + Len(CString(str))) = CString(str)

\* the code offset the symbol table of b records for the handler of cmd, 0 without one:
\* the k-th symbol record belongs to the k-th extracted function
HandlerOffset(b, cmd) ==
    LET F == extractFunctions(src)
    IN  IF cmd.handler.t = "string" /\ \E k \in 1..Len(F) : F[k].name = cmd.handler.s
        THEN HeaderInt(b, HeaderInt(b, 180)
                          + 12 * ((CHOOSE k \in 1..Len(F) : F[k].name = cmd.handler.s) - 1) + 4)
        ELSE 0

(* C20: the data section is the string table followed by one 20-byte stub   *)
(* per command, in registration order; the first four u32s of a stub are    *)
(* the offsets of the command's name, syntax, description and category in   *)
(* the string table, the fifth is the code offset of the handler function,  *)
(* 0 when the handler names no extracted function.                          *)
C20_StubsEndDataSection ==
    \A b \in Artifacts :
        LET n == Len(SourceCommands)
            D == DataOf(b)
        IN  n > 0 =>
                /\ Len(D) = Len(StrtabOf(b)) + 20 * n
                /\ SubSeq(D, 1, Len(D) - 20 * n) = StrtabOf(b)
                /\ \A c \in 1..n :
                      /\ StringAt(D, HeaderInt(StubOf(D, n, c), 0), SourceCommands[c].name)
                      /\ StringAt(D, HeaderInt(StubOf(D, n, c), 4), SourceCommands[c].syntax)
                      /\ StringAt(D, HeaderInt(StubOf(D, n, c), 8), SourceCommands[c].description)
                      /\ StringAt(D, HeaderInt(StubOf(D, n, c), 12), SourceCommands[c].category)
                      /\ HeaderInt(StubOf(D, n, c), 16) = HandlerOffset(b, SourceCommands[c])

\* two commands: the handler of the first is a function past offset 0, that of the
\* second is no function
C20_Witness ==
    /\ pc = "done" /\ compiled.status = "ok"
    /\ Len(SourceCommands) = 2
    /\ HeaderInt(StubOf(DataOf(compiled.binary), 2, 1), 16) > 0
    /\ HeaderInt(StubOf(DataOf(compiled.binary), 2, 2), 16) = 0
    /\ SourceCommands[2].handler.t = "string"
    /\ HeaderInt(StubOf(DataOf(compiled.binary), 2, 1), 0)
           # HeaderInt(StubOf(DataOf(compiled.binary), 2, 2), 0)

----------------------------------------------------------------------------
(* The emitted code read back: the byte offsets of its opcodes *)

\* the bytes an instruction occupies, by its opcode byte
InstrLen(op) ==
    CASE op \in {OPCODES.PUSH, OPCODES.PUSH_STR, OPCODES.JMP, OPCODES.JZ, OPCODES.JNZ} -> 5
      [] op \in {OPCODES.PUSH_ARG, OPCODES.LOAD_LOCAL, OPCODES.STORE_LOCAL} -> 2
      [] op = OPCODES.CALL -> 6
      [] op = OPCODES.CALL_API -> 3
      [] OTHER -> 1

\* the offsets of the opcode bytes of a code section, from offset pos on
RECURSIVE Disasm(_, _)
Disasm(code, pos) ==
    IF pos >= Len(code) THEN <<>>
    ELSE <<pos>> \o Disasm(code, pos + InstrLen(code[pos + 1]))

\* the offsets at which the opcode op stands
OpcodesAt(code, op) ==
    LET Is(p) == code[p + 1] = op
    IN  SelectSeq(Disasm(code, 0), Is)

\* the IR of the source, and its instructions with opcode op, function after function
SourceIr == parse(src, "module.js").ir
IrInstructions(op) ==
    LET Is(instr) == instr.op = op
    IN  Flatten([k \in 1..Len(SourceIr.functions) |->
                    SelectSeq(SourceIr.functions[k].instructions, Is)])

\* the code offset the symbol table of b records for the function `name`, -1 without one
CodeOffsetOf(b, name) ==
    LET F == extractFunctions(src)
    IN  IF \E k \in 1..Len(F) : F[k].name = name
        THEN HeaderInt(b, HeaderInt(b, 180) + 12 * ((CHOOSE k \in 1..Len(F) : F[k].name = name) - 1) + 4)
        ELSE -1

(* C21: the operand of every emitted CALL is the code offset of the callee  *)
(* when the callee is a function of the module, declared before or after    *)
(* the caller, and 0 when it is not.                                        *)
C21_CallOperandsAreResolved ==
    \A b \in Artifacts :
        LET code == CodeOf(b)
            at == OpcodesAt(code, OPCODES.CALL)
            calls == IrInstructions(OPCODES.CALL)
        IN  /\ Len(at) = Len(calls)
            /\ \A j \in 1..Len(at) :
                  HeaderInt(code, at[j] + 1)
                      = (IF CodeOffsetOf(b, calls[j].func) = -1 THEN 0
                         ELSE CodeOffsetOf(b, calls[j].func))

\* a caller whose callees lie before it, after it, and nowhere
C21_Witness ==
    /\ pc = "done" /\ compiled.status = "ok"
    /\ LET code == CodeOf(compiled.binary)
           at == OpcodesAt(code, OPCODES.CALL)
       IN  /\ Len(at) = 4
           /\ 0 < HeaderInt(code, at[1] + 1) /\ HeaderInt(code, at[1] + 1) < at[1]
           /\ HeaderInt(code, at[2] + 1) > at[4]
           /\ HeaderInt(code, at[3] + 1) = 0
           /\ CodeOffsetOf(compiled.binary, IrInstructions(OPCODES.CALL)[3].func) = -1

----------------------------------------------------------------------------
(* References to locals *)

\* the highest 0-based index of name among locals, -1 when it is none of them
LatestIndex(locals, name) ==
    IF \E i \in 1..Len(locals) : locals[i] = name
    THEN (CHOOSE i \in 1..Len(locals) :
              /\ locals[i] = name
              /\ \A j \in (i + 1)..Len(locals) : locals[j] # name) - 1
    ELSE -1

Occurrences(locals, name) == Cardinality({i \in 1..Len(locals) : locals[i] = name})

\* the references to locals a statement is lowered to, with the locals added so far
RefsOfStatement(n, locals) ==
    CASE n.kind = "var" ->
            IF n.hasInit THEN <<[name |-> n.name, locals |-> Append(locals, n.name)]>> ELSE <<>>
      [] n.kind = "api" ->
            LET IsRef(arg) == /\ arg.type = "Identifier"
                              /\ TypeOf(evaluateLiteral(arg)) \notin {"string", "number"}
                refs == SelectSeq(n.args, IsRef)
            IN  [i \in 1..Len(refs) |-> [name |-> refs[i].name, locals |-> locals]]
      [] OTHER -> <<>>

\* ... of a body, from statement i on
RECURSIVE RefsOfBody(_, _, _)
RefsOfBody(body, i, locals) ==
    IF i > Len(body) THEN <<>>
    ELSE RefsOfStatement(body[i], locals)
         \o RefsOfBody(body, i + 1, locals \o StatementLocals(body[i]))

\* ... of the source, function after function, each with the number of locals of its function
SourceRefs ==
    LET F == extractFunctions(src)
        count(k) == Len(Flatten([i \in 1..Len(F[k].body) |-> StatementLocals(F[k].body[i])]))
        refs(k) == RefsOfBody(F[k].body, 1, <<>>)
    IN  Flatten([k \in 1..Len(F) |->
                    [i \in 1..Len(refs(k)) |->
                        [name |-> refs(k)[i].name, locals |-> refs(k)[i].locals,
                         slots |-> count(k)]]])

\* the offsets of the LOAD_LOCAL and STORE_LOCAL opcodes of a code section
LocalOpsAt(code) ==
    LET Is(p) == code[p + 1] \in {OPCODES.LOAD_LOCAL, OPCODES.STORE_LOCAL}
    IN  SelectSeq(Disasm(code, 0), Is)

(* C22: a reference to a local name that has been added twice to its        *)
(* function is emitted with the latest (highest) index of that name.        *)
C22_LatestIndexWins ==
    \A b \in Artifacts :
        LET code == CodeOf(b)
            at == LocalOpsAt(code)
        IN  /\ Len(at) = Len(SourceRefs)
            /\ \A j \in 1..Len(at) :
                  Occurrences(SourceRefs[j].locals, SourceRefs[j].name) >= 2 =>
                      code[at[j] + 2] = LatestIndex(SourceRefs[j].locals, SourceRefs[j].name)


(* C28: the index byte of every emitted LOAD_LOCAL and STORE_LOCAL is below *)
(* the number of locals of its function, whatever identifier is referenced. *)
C28_LocalIndexIsValid ==
    \A b \in Artifacts :
        LET code == CodeOf(b)
            at == LocalOpsAt(code)
        IN  /\ Len(at) = Len(SourceRefs)
            /\ \A j \in 1..Len(at) : code[at[j] + 2] < SourceRefs[j].slots

----------------------------------------------------------------------------
(* Reserved header regions *)

\* [first, end) of the reserved fields, the signature field and the trailing pad
ReservedRegions ==
    { <<98, 100>>, <<112, 116>>, <<144, 164>>, <<172, 180>>, <<196, 212>>, <<213, 216>>,
      <<346, 348>>, <<420, 448>>, <<356, 420>>, <<448, 512>> }

(* C23: in every artifact the reserved header regions, the signature field  *)
(* and the trailing pad are zero, whatever the lengths and characters of    *)
(* the name, version, author and dependency names of the descriptor.        *)
C23_ReservedRegionsAreZero ==
    \A b \in Artifacts :
        \A r \in ReservedRegions : \A i \in r[1]..(r[2] - 1) : b[i + 1] = 0

----------------------------------------------------------------------------
(* String operands *)

\* the offsets of the PUSH and PUSH_STR opcodes of a code section
PushesAt(code) ==
    LET Is(p) == code[p + 1] \in {OPCODES.PUSH, OPCODES.PUSH_STR}
    IN  SelectSeq(Disasm(code, 0), Is)

\* the IR values behind them, function after function: the prologue pushes one zero per
\* local, then come the values of the PUSH, PUSH_STR and STORE_LOCAL instructions
PushedValues ==
    LET Pushes(instr) == instr.op \in {OPCODES.PUSH, OPCODES.PUSH_STR, OPCODES.STORE_LOCAL}
        values(f) == LET ins == SelectSeq(f.instructions, Pushes)
                     IN  [i \in 1..Len(f.locals) |-> NumV(Zero)]
                         \o [i \in 1..Len(ins) |-> ins[i].value]
    IN  Flatten([k \in 1..Len(SourceIr.functions) |-> values(SourceIr.functions[k])])

(* C24: the operand of every emitted PUSH or PUSH_STR whose IR value is a   *)
(* string is the offset in the data section at which that string stands,    *)
(* NUL-terminated.                                                          *)
C24_StringOperandsPointAtString ==
    \A b \in Artifacts :
        LET code == CodeOf(b)
            at == PushesAt(code)
        IN  /\ Len(at) = Len(PushedValues)
            /\ \A j \in 1..Len(at) :
                  TypeOf(PushedValues[j]) = "string" =>
                      StringAt(DataOf(b), HeaderInt(code, at[j] + 1), PushedValues[j])

----------------------------------------------------------------------------
(* C25: the CLI exits with 0 or 1, and with 1 whenever the text does not    *)
(* parse or the module lacks AKM.module, a name, init or exit, in every     *)
(* mode, --dry-run included; a dry run never writes the artifact.           *)
C25_ExitCodeReportsErrors ==
    pc = "exited" =>
        /\ cli.exitCode \in {0, 1}
        /\ (~src.syntaxOk \/ StructuralError) => cli.exitCode = 1
        /\ opts.dryRun => ~cli.artifactWritten

----------------------------------------------------------------------------
(* C26: after lowering and command injection the instruction list of every  *)
(* IR function is non-empty and ends in RET.                                *)
C26_EveryFunctionEndsInRet ==
    Parsed =>
        \A k \in 1..Len(parseRes.ir.functions) :
            LET list == parseRes.ir.functions[k].instructions
            IN  Len(list) >= 1 /\ list[Len(list)].op = OPCODES.RET

\* commands injected into an init whose last statement is no return, next to a function
\* with an empty body
C26_Witness ==
    /\ Injected
    /\ \E k \in 1..Len(src.functions) :
          /\ src.functions[k].name = STR_init
          /\ Len(src.functions[k].body) = 2
          /\ src.functions[k].body[1].kind = "return"
          /\ src.functions[k].body[2].kind = "api"
    /\ \E k \in 1..Len(src.functions) : src.functions[k].body = <<>>
    /\ BlockCount(InitInstructions) = 1
    /\ Len(InitInstructions) > FirstRet(InitInstructions) + 1

----------------------------------------------------------------------------
(* Jump targets across the passes *)

Jumps == {OPCODES.JMP, OPCODES.JZ, OPCODES.JNZ}

\* the jumps of a list that carry a positional target inside the list `within`
TargetsOf(list, within) ==
    {list[i].target : i \in {k \in 1..Len(list) :
                                /\ list[k].op \in Jumps
                                /\ list[k].target > 0
                                /\ list[k].target < Len(within)}}

(* C27: after a pass every jump with a positional target designates the     *)
(* instruction it designated before the pass, and dead-code elimination     *)
(* drops no instruction that is the positional target of a jump.            *)
C27_JumpTargetsSurvive ==
    Len(passes) >= 1 =>
        LET before == passes[Len(passes)].before
        IN  /\ \A t \in TargetsOf(Optimized, before) :
                  t < Len(Optimized) /\ Optimized[t + 1] = before[t + 1]
            /\ passes[Len(passes)].pass = "deadCodeElimination" =>
                  \A t \in TargetsOf(before, before) :
                      \E i \in 1..Len(Optimized) : Optimized[i] = before[t + 1]

----------------------------------------------------------------------------
(* C29: the registration blocks stand in init in the order in which the     *)
(* commands were registered: the block of the i-th command precedes the     *)
(* block of the (i+1)-th.                                                   *)
C29_BlocksInRegistrationOrder ==
    Injected =>
        \A c \in 1..(Len(parseRes.commands) - 1) :
            \E p, q \in 0..Len(InitInstructions) :
                /\ p < q
                /\ IsBlock(InitInstructions, p, parseRes.commands[c])
                /\ IsBlock(InitInstructions, q, parseRes.commands[c + 1])

----------------------------------------------------------------------------
(* AKMCodeGen.generate, one generateInstruction call per step *)

\* an IR whose jumps carry labels: of a function, of nothing, and a positional target
JumpFunctions ==
    << [newIrFunction(STR_init, <<>>) EXCEPT
           !.instructions = << [Ins(OPCODES.JMP) EXCEPT !.label = STR_exit],
                               [Ins(OPCODES.JZ) EXCEPT !.label = STR_foo, !.target = 3],
                               [Ins(OPCODES.JNZ) EXCEPT !.target = 1],
                               InsCall(STR_h, 2), InsCall(STR_init, 0), Ins(OPCODES.RET) >>],
       [newIrFunction(STR_h, <<>>) EXCEPT
           !.instructions = << InsStore(STR_x, NumV(Num(5))), InsName(OPCODES.LOAD_LOCAL, STR_x),
                               Ins(OPCODES.RET) >>,
           !.locals = <<STR_x>>],
       [newIrFunction(STR_exit, <<>>) EXCEPT
           !.instructions = << [Ins(OPCODES.JMP) EXCEPT !.label = STR_init], Ins(OPCODES.RET) >>] >>

\* what generate is handed: parse results of the scenario sources, and the IR above
GenInputs ==
    { parse(in[1], "module.js") : in \in ScenarioInputs }
    \cup { [ir |-> [functions |-> JumpFunctions, strings |-> <<>>, commands |-> <<>>],
            commands |-> <<>>] }

InitGen ==
    /\ \E p \in GenInputs :
          gen = [parseResult |-> p, cg |-> resetCodeGen(NewCodeGen), functionOffsets |-> <<>>,
                 f |-> 1, i |-> 0, phase |-> "emit", unresolved |-> <<>>]
    /\ src = Idle /\ opts = Idle /\ pc = "generating"
    /\ parseRes = Idle /\ compiled = Idle /\ cli = Idle
    /\ instance = Idle /\ history = <<>>
    /\ NoCk /\ NoInfo /\ NoOpt

GenFunctions == gen.parseResult.ir.functions
GenStringTable == buildStringTableEntries(gen.parseResult.ir.strings)

\* functionOffsets.set(func.name, this.currentOffset), then generateFunction up to the body
EnterFunction ==
    /\ pc = "generating" /\ gen.phase = "emit"
    /\ gen.f <= Len(GenFunctions) /\ gen.i = 0
    /\ gen' = [gen EXCEPT
                  !.functionOffsets = Append(@, [name |-> GenFunctions[gen.f].name,
                                                 offset |-> gen.cg.currentOffset]),
                  !.cg = enterFunction(@, GenFunctions[gen.f]),
                  !.i = 1]
    /\ UNCHANGED <<src, opts, pc, parseRes, compiled, cli, ckData, ckPos, ckAcc, instance, history, akmFile, info, optIr, passes>>

\* one turn of the loop over func.instructions
EmitInstruction ==
    /\ pc = "generating" /\ gen.phase = "emit"
    /\ gen.f <= Len(GenFunctions) /\ gen.i >= 1
    /\ gen' = [gen EXCEPT
                  !.cg = IF gen.i <= Len(GenFunctions[gen.f].instructions)
                         THEN generateInstruction(@, GenFunctions[gen.f].instructions[gen.i],
                                                  GenStringTable, GenFunctions[gen.f])
                         ELSE @,
                  !.i = IF gen.i >= Len(GenFunctions[gen.f].instructions) THEN 0 ELSE @ + 1,
                  !.f = IF gen.i >= Len(GenFunctions[gen.f].instructions) THEN @ + 1 ELSE @]
    /\ UNCHANGED <<src, opts, pc, parseRes, compiled, cli, ckData, ckPos, ckAcc, instance, history, akmFile, info, optIr, passes>>

\* this.resolveFixups(), after the loop over the functions
ResolveFixups ==
    /\ pc = "generating" /\ gen.phase = "emit"
    /\ gen.f > Len(GenFunctions)
    /\ gen' = [gen EXCEPT !.cg = resolveFixups(@), !.unresolved = gen.cg.code,
                          !.phase = "resolved"]
    /\ UNCHANGED <<src, opts, pc, parseRes, compiled, cli, ckData, ckPos, ckAcc, instance, history, akmFile, info, optIr, passes>>

NextGen == EnterFunction \/ EmitInstruction \/ ResolveFixups

SpecGen == InitGen /\ [][NextGen]_vars

\* the bytes a fixup addresses
FixupBytes == UNION {(gen.cg.fixups[k].offset + 1)..(gen.cg.fixups[k].offset + 4) :
                        k \in 1..Len(gen.cg.fixups)}

Counted(cg) == cg.currentOffset = Len(cg.code)

(* C30: during generate() currentOffset is the length of the code buffer,   *)
(* and stays so over any further emit, emitInt32 or emitInt16; every        *)
(* function offset and label address is the offset of the leading NOP of    *)
(* its function; every fixup addresses the four operand bytes of a CALL or  *)
(* jump inside the buffer; resolving the fixups keeps the length of the     *)
(* code and changes no byte outside those operands.                         *)
C30_CodeGenBookkeeping ==
    pc = "generating" =>
        LET cg == gen.cg
            ops == Disasm(cg.code, 0)
            IsOp(p) == \E k \in 1..Len(ops) : ops[k] = p
        IN  /\ Counted(cg)
            /\ Counted(emit(cg, 511)) /\ Counted(emitInt32(cg, Num(-1)))
            /\ Counted(emitInt16(cg, Num(65535)))
            /\ Len(cg.labels) = Len(gen.functionOffsets)
            /\ \A k \in 1..Len(cg.labels) :
                  /\ cg.labels[k] = gen.functionOffsets[k]
                  /\ cg.labels[k].name = GenFunctions[k].name
                  /\ IsOp(cg.labels[k].offset)
                  /\ cg.code[cg.labels[k].offset + 1] = OPCODES.NOP
                  /\ k > 1 => cg.labels[k].offset > cg.labels[k - 1].offset
                  /\ k > 1 => cg.code[cg.labels[k].offset] = OPCODES.RET
            /\ cg.labels # <<>> => cg.labels[1].offset = 0
            /\ \A k \in 1..Len(cg.fixups) :
                  /\ cg.fixups[k].offset >= 1
                  /\ cg.fixups[k].offset + 4 <= Len(cg.code)
                  /\ IsOp(cg.fixups[k].offset - 1)
                  /\ cg.code[cg.fixups[k].offset] \in Jumps \cup {OPCODES.CALL}
                  /\ \A j \in 1..(k - 1) : cg.fixups[j].offset + 4 <= cg.fixups[k].offset
            /\ gen.phase = "resolved" =>
                  /\ Len(cg.code) = Len(gen.unresolved)
                  /\ \A p \in 1..Len(cg.code) :
                        p \notin FixupBytes => cg.code[p] = gen.unresolved[p]
                  /\ ops = Disasm(gen.unresolved, 0)
                  /\ cg.code = generate(gen.parseResult).code

\* the fixups of calls and labelled jumps resolved: one forward, one backward, one unknown
C30_Witness ==
    /\ pc = "generating" /\ gen.phase = "resolved"
    /\ Len(gen.cg.fixups) >= 4
    /\ gen.cg.code # gen.unresolved
    /\ \E k \in 1..Len(gen.cg.fixups) :
          LabelsGet(gen.cg.labels, gen.cg.fixups[k].label) > gen.cg.fixups[k].offset
    /\ \E k \in 1..Len(gen.cg.fixups) : LabelsGet(gen.cg.labels, gen.cg.fixups[k].label) = -1
    /\ \E k \in 1..Len(gen.cg.fixups) : gen.cg.code[gen.cg.fixups[k].offset] = OPCODES.JMP

====
